---- MODULE Spec2Model ----
(***************************************************************************)
(* MatkulFinder: the single-term elective recommender                      *)
(* (model/course_recommender.py) and the multi-term A* planner             *)
(* (model/smart_course_planner.py).                                        *)
(*                                                                         *)
(* Texts (course names, type labels, topics, interests, career strings)   *)
(* are sequences of words; Python's  x in y  on strings is containment of  *)
(* a contiguous word sequence.  JSON scalars that may be malformed (credit *)
(* weights, offering terms, cap entries) are tagged values: IntV(n), StrV  *)
(* (a string that int() rejects) or NoneV.                                 *)
(***************************************************************************)
EXTENDS Integers, Sequences, FiniteSets, TLC

(***************************************************************************)
(* Bounds of the model.                                                    *)
(***************************************************************************)
\* the catalogue holds at most this many courses of the pool
MaxCourses == 3
\* the student's current term ranges over 8 - Horizon .. 8
Horizon == 3
\* the small expansion budget among the max_expansions arguments
SmallBudget == 3

(***************************************************************************)
(* Program constants.                                                      *)
(***************************************************************************)
GRADUATION_SEM == 8
DEFAULT_CAP == 20
ADVANCE_BASE == 1000
SKS_BONUS_PER_SKS == 60
DEFAULT_TOP_CANDIDATES == 15
DEFAULT_MAX_EXPANSIONS == 20000

(***************************************************************************)
(* Tagged JSON scalars and Python's int().                                 *)
(***************************************************************************)
IntV(n) == [k |-> "int", v |-> n]
StrV == [k |-> "str", v |-> 0]
NoneV == [k |-> "none", v |-> 0]

\* int(x) succeeds exactly on integers; a malformed string or None raises
IntOk(x) == x.k = "int"

\* int(c.get("sks") or 0) inside try/except -> 0
SksOrZero(c) == IF IntOk(c.sks) THEN c.sks.v ELSE 0

(***************************************************************************)
(* Words, texts and substring containment.                                 *)
(***************************************************************************)
\* the lower-case form of each word that is written with capitals
LowerWord(w) ==
    CASE w = "Wajib" -> "wajib"
      [] w = "Program" -> "program"
      [] w = "Studi" -> "studi"
      [] w = "Pilihan" -> "pilihan"
      [] w = "Lab" -> "lab"
      [] w = "Sistem" -> "sistem"
      [] w = "Cerdas" -> "cerdas"
      [] w = "Komputer" -> "komputer"
      [] w = "Jaringan" -> "jaringan"
      [] w = "Rekayasa" -> "rekayasa"
      [] w = "Perangkat" -> "perangkat"
      [] w = "Lunak" -> "lunak"
      [] w = "Data" -> "data"
      [] w = "AI" -> "ai"
      [] w = "Graph" -> "graph"
      [] w = "Smart" -> "smart"
      [] w = "Course" -> "course"
      [] w = "Planner" -> "planner"
      [] w = "Recommender" -> "recommender"
      [] OTHER -> w

\* str.lower()
Lower(t) == [i \in 1..Len(t) |-> LowerWord(t[i])]

\* needle in hay
Contains(hay, needle) ==
    \E i \in 0..(Len(hay) - Len(needle)) :
        SubSeq(hay, i + 1, i + Len(needle)) = needle

RECURSIVE JoinAll(_)
\* " ".join(list of texts)
JoinAll(ts) == IF ts = <<>> THEN <<>> ELSE Head(ts) \o JoinAll(Tail(ts))

(***************************************************************************)
(* Knowledge tables of CourseRecommender.__init__.  The dicts are kept as *)
(* sequences in the source's insertion order (iteration order matters in   *)
(* _lab_preferences_for_career).  Kept here: the careers the modelled      *)
(* profiles can match, with the keywords the pool's texts can contain.     *)
(***************************************************************************)
career_keyword_map ==
    << [key |-> <<"data", "scientist">>,
        keywords |-> << <<"data">>, <<"machine", "learning">>, <<"statist">>,
                        <<"data", "mining">>, <<"sistem", "cerdas">> >>],
       [key |-> <<"software", "engineer">>,
        keywords |-> << <<"program">>, <<"software">>, <<"object", "oriented">>, <<"oop">> >>],
       [key |-> <<"network", "engineer">>,
        keywords |-> << <<"network">>, <<"jaringan">> >>],
       [key |-> <<"business">>,
        keywords |-> << <<"business">>, <<"bisnis">>, <<"startup">>, <<"proposal">> >>],
       [key |-> <<"business", "analyst">>,
        keywords |-> << <<"business">>, <<"bisnis">>, <<"analyst">>, <<"data">> >>] >>

career_lab_preferences ==
    << [key |-> <<"data", "scientist">>, labs |-> <<"ai", "algkom", "rpld">>],
       [key |-> <<"network", "engineer">>, labs |-> <<"skj">>],
       [key |-> <<"business">>, labs |-> <<"rpld">>],
       [key |-> <<"business", "analyst">>, labs |-> <<"rpld">>],
       [key |-> <<"software", "engineer">>, labs |-> <<"rpld", "algkom">>] >>

\* mutant: every rank earns the top bonus
LabWeightsFlat == <<20, 20, 20, 20>>

\* weights = [20, 12, 6, 3]; beyond the list: 2
LabWeights == <<20, 12, 6, 3>>

LabBonus(idx0) == IF idx0 < Len(LabWeights) THEN LabWeights[idx0 + 1] ELSE 2

\* " rpl" in ct, " data" in ct: the word, not at the very start of the label
ContainsAfterSpace(ct, w) == \E i \in 2..Len(ct) : ct[i] = w

\* CourseRecommender._lab_category; "none" stands for None
LabCategory(course_type) ==
    LET ct == Lower(course_type) IN
    IF ct = <<>> THEN "none"
    ELSE IF Contains(ct, <<"algoritma">>) \/ Contains(ct, <<"komputasi">>) THEN "algkom"
    ELSE IF Contains(ct, <<"rekayasa", "perangkat", "lunak">>)
            \/ ContainsAfterSpace(ct, "rpl") \/ ContainsAfterSpace(ct, "data") THEN "rpld"
    ELSE IF Contains(ct, <<"sistem", "cerdas">>) \/ Contains(ct, <<"kecerdasan">>)
            \/ Contains(ct, <<"intelligent">>) THEN "ai"
    ELSE IF Contains(ct, <<"sistem", "komputer">>) \/ Contains(ct, <<"jaringan">>)
            \/ Contains(ct, <<"network">>) THEN "skj"
    ELSE "none"

\* k in key or key in k
LabelMatches(k, key) == Contains(key, k) \/ Contains(k, key)

\* CourseRecommender._lab_preferences_for_career; <<>> stands for None
\* (a career of None or "" is the empty text)
LabPreferencesForCareer(career_target) ==
    IF career_target = <<>> THEN <<>>
    ELSE LET key == Lower(career_target)
             hits == {i \in 1..Len(career_lab_preferences) :
                         LabelMatches(career_lab_preferences[i].key, key)}
         IN IF hits = {} THEN <<>>
            ELSE career_lab_preferences[CHOOSE i \in hits : \A j \in hits : i <= j].labs

\* list.index(x) as a 0-based rank
IndexOf(seq, x) == (CHOOSE i \in 1..Len(seq) : seq[i] = x /\ \A j \in 1..(i - 1) : seq[j] # x) - 1

InSeq(seq, x) == \E i \in 1..Len(seq) : seq[i] = x

\* CourseRecommender._matches_interest
MatchesInterest(course, interests) ==
    LET name_fields == Lower(course.course_name_en \o course.course_name_id \o course.type)
        topics == Lower(JoinAll(course.topics))
    IN Cardinality({i \in 1..Len(interests) :
           Contains(name_fields, Lower(interests[i])) \/ Contains(topics, Lower(interests[i]))})

\* CourseRecommender._career_relevance
CareerRelevance(course, career_target) ==
    IF career_target = <<>> THEN FALSE
    ELSE LET career_key == Lower(career_target)
             hay == Lower(course.course_name_en \o course.course_name_id
                          \o JoinAll(course.topics) \o course.type)
             hay2 == Lower(course.course_name_en \o course.course_name_id
                           \o JoinAll(course.topics))
         IN \/ \E i \in 1..Len(career_keyword_map) :
                  /\ LabelMatches(career_keyword_map[i].key, career_key)
                  /\ \E j \in 1..Len(career_keyword_map[i].keywords) :
                        Contains(hay, career_keyword_map[i].keywords[j])
            \/ \E t \in 1..Len(career_key) : Contains(hay2, <<career_key[t]>>)

\* CoursePlanner._score
Score(course, interests, career_goal) ==
    LET lab_cat == LabCategory(course.type)
        lab_pref == LabPreferencesForCareer(career_goal)
    IN 15 * MatchesInterest(course, interests)
       + (IF career_goal # <<>> /\ CareerRelevance(course, career_goal) THEN 10 ELSE 0)
       + (IF lab_cat # "none" /\ lab_pref # <<>> /\ InSeq(lab_pref, lab_cat)
          THEN LabBonus(IndexOf(lab_pref, lab_cat)) ELSE 0)

(***************************************************************************)
(* The knowledge store: a pool of course records (data/cs_courses.json)    *)
(* and prerequisite rules (data/prerequisite_rules.json).  Course codes are *)
(* unique.  A catalogue is a subsequence of the pool.                      *)
(***************************************************************************)
Pool ==
    << [course_code |-> "A",
        course_name_en |-> <<"machine", "learning">>,
        course_name_id |-> <<"pembelajaran", "mesin">>,
        type |-> <<"Pilihan", "Lab", "Sistem", "Cerdas">>,
        topics |-> << <<"Data", "mining">>, <<"AI">> >>,
        sks |-> IntV(3), semesters |-> <<>>],
       [course_code |-> "B",
        course_name_en |-> <<"deep", "learning">>,
        course_name_id |-> <<"pembelajaran", "mendalam">>,
        type |-> <<"pilihan", "lab", "sistem", "cerdas">>,
        topics |-> << <<"neural", "network">> >>,
        sks |-> IntV(2), semesters |-> <<IntV(7)>>],
       [course_code |-> "C",
        course_name_en |-> <<"computer", "networks">>,
        course_name_id |-> <<"jaringan", "komputer">>,
        type |-> <<"Pilihan", "Lab", "Sistem", "Komputer", "dan", "Jaringan">>,
        topics |-> <<>>,
        sks |-> IntV(17), semesters |-> <<IntV(6), StrV>>],
       [course_code |-> "W",
        course_name_en |-> <<"algorithms">>,
        course_name_id |-> <<"algoritma">>,
        type |-> <<"Wajib", "Program", "Studi">>,
        topics |-> << <<"AI">> >>,
        sks |-> IntV(2), semesters |-> <<>>],
       [course_code |-> "D",
        course_name_en |-> <<"software", "project">>,
        course_name_id |-> <<"proyek", "perangkat", "lunak">>,
        type |-> <<"Pilihan", "Lab", "Rekayasa", "Perangkat", "Lunak", "dan", "Data">>,
        topics |-> << <<"AI">> >>,
        sks |-> StrV, semesters |-> <<NoneV>>],
       [course_code |-> "A2",
        course_name_en |-> <<"graph", "theory">>,
        course_name_id |-> <<"teori", "graf">>,
        type |-> <<"Pilihan">>,
        topics |-> <<>>,
        sks |-> IntV(3), semesters |-> <<>>] >>

Codes == {Pool[i].course_code : i \in 1..Len(Pool)}

\* the subsequence of the pool at the indices in idx
RECURSIVE PickSeq(_, _)
PickSeq(idx, i) ==
    IF i > Len(Pool) THEN <<>>
    ELSE (IF i \in idx THEN <<Pool[i]>> ELSE <<>>) \o PickSeq(idx, i + 1)

Catalogues == {PickSeq(idx, 1) : idx \in {x \in SUBSET (1..Len(Pool)) : Cardinality(x) <= MaxCourses}}

\* prerequisite_rules.json: code -> "prerequisites" list; A has no entry,
\* C has an entry with an empty list
PrereqRules ==
    [c \in {"B", "C", "W", "D", "A2"} |->
        CASE c = "B" -> << [code |-> "A", is_corequisite |-> FALSE],
                           [code |-> "C", is_corequisite |-> TRUE] >>
          [] c = "C" -> <<>>
          [] c = "W" -> << [code |-> "A", is_corequisite |-> FALSE] >>
          [] c = "D" -> << [code |-> "A", is_corequisite |-> TRUE] >>
          [] c = "A2" -> << [code |-> "C", is_corequisite |-> TRUE] >>]

\* a missing rules file loads as {}
EmptyRules == [c \in {} |-> <<>>]

\* the two knowledge files a component is constructed over
KnowledgeFiles == {"courses", "rules"}

\* CourseRecommender._load_courses: a missing file loads as []
LoadCourses(missing, cat) == IF "courses" \in missing THEN <<>> ELSE cat

\* CourseRecommender._load_prereq_rules: a missing file loads as {}
LoadPrereqRules(missing, rules) == IF "rules" \in missing THEN EmptyRules ELSE rules

VARIABLES
    missing_files,      \* the knowledge files that do not exist on disk
    courses,            \* self.courses
    prereq,             \* self.prereq / self.prereq_rules
    courses_taken,      \* the student's taken set
    interests,          \* list of interest texts
    career_goal,        \* target career text, <<>> for None
    current_semester,
    pc,                 \* "idle" | "init_error" | "search" | "select" | "done" |
                        \* "rec_done" | "script_exit_1" | "script_exit_2" | "script_plan"
    per_semester_caps,  \* planner argument, a list of tagged values
    top_candidates,
    max_expansions,
    caps_map,           \* term -> cap, for the terms that got one
    open_heap,          \* set of [f, st] entries
    g_cost,             \* state -> lowest cost recorded
    g_keys,             \* insertion order of g_cost
    came_from,          \* state -> [prev, typ, code]
    expansions,
    stop,               \* how the loop ended: "goal" | "empty" | "budget"
    best_state,
    schedule,           \* returned "schedule": list of [semester, courses, sks]
    rec_args,           \* the remaining arguments of recommend_courses
    recommended,        \* the list recommend_courses returns
    rec_error,          \* recommend_courses raised instead of returning
    conv,               \* the bot conversation's state, "END" outside a conversation
    user_data,          \* context.user_data: key -> stored answer
    calls,              \* the recommender / planner calls of the conversation
    updates,            \* the number of updates the bot has received
    last_update         \* the update the bot received last

vars == <<missing_files, courses, prereq, courses_taken, interests, career_goal, current_semester,
          pc, per_semester_caps, top_candidates, max_expansions, caps_map,
          open_heap, g_cost, g_keys, came_from, expansions, stop, best_state, schedule,
          rec_args, recommended, rec_error, conv, user_data, calls, updates, last_update>>

recvars == <<rec_args, recommended, rec_error>>

botvars == <<conv, user_data, calls, updates, last_update>>

\* no update yet
NoUpdate == [kind |-> "none", reply |-> <<>>, at |-> "END"]

\* a message with text that is not a command, and the state it arrives in
TextUpdate(reply) == [kind |-> "text", reply |-> reply, at |-> conv]

\* a command, or a message without text, and the state it arrives in
OtherUpdate(kind) == [kind |-> kind, reply |-> <<>>, at |-> conv]

\* an empty context.user_data
NoData == [k \in {} |-> 0]

planvars == <<per_semester_caps, top_candidates, max_expansions, caps_map,
              open_heap, g_cost, g_keys, came_from, expansions, stop, best_state, schedule>>

profile == <<missing_files, courses, prereq, courses_taken, interests, career_goal, current_semester>>

\* self.course_by_code.get(code): the last record carrying the code
HasCourse(code) == \E i \in 1..Len(courses) : courses[i].course_code = code

CourseByCode(code) ==
    courses[CHOOSE i \in 1..Len(courses) :
                /\ courses[i].course_code = code
                /\ \A j \in (i + 1)..Len(courses) : courses[j].course_code # code]

\* CoursePlanner._is_elective
IsElective(course) == ~Contains(Lower(course.type), <<"wajib">>)

\* the terms of course["semesters"] that int() accepts
SemsInt(course) == {course.semesters[i].v : i \in {j \in 1..Len(course.semesters) : IntOk(course.semesters[j])}}

\* CoursePlanner._offered_in_semester
OfferedInSemester(course, sem) ==
    IF course.semesters = <<>> THEN TRUE
    ELSE IF SemsInt(course) # {} THEN sem \in SemsInt(course) ELSE TRUE

NonCoreq(entry) == {entry[i].code : i \in {j \in 1..Len(entry) : ~entry[j].is_corequisite}}

Coreq(entry) == {entry[i].code : i \in {j \in 1..Len(entry) : entry[j].is_corequisite}}

\* CoursePlanner._prereq_ok
PrereqOk(code, taken) ==
    IF code \notin DOMAIN prereq THEN TRUE
    ELSE IF prereq[code] = <<>> THEN TRUE
    ELSE NonCoreq(prereq[code]) \subseteq taken

\* keep the elements of seq at which Keep holds, in order
RECURSIVE FilterSeq(_, _)
FilterSeq(seq, keep) ==
    IF seq = <<>> THEN <<>>
    ELSE (IF Head(seq) \in keep THEN <<Head(seq)>> ELSE <<>>) \o FilterSeq(Tail(seq), keep)

SeqRange(seq) == {seq[i] : i \in 1..Len(seq)}

\* CoursePlanner._candidate_courses_for_semester
CandidateCoursesForSemester(sem, taken_prev) ==
    FilterSeq(courses, {c \in SeqRange(courses) :
                          /\ c.course_code # ""
                          /\ IsElective(c)
                          /\ OfferedInSemester(c, sem)
                          /\ PrereqOk(c.course_code, taken_prev)})

\* the list with each course's sort key, computed once per element
RECURSIVE WithScore(_)
WithScore(seq) ==
    IF seq = <<>> THEN <<>>
    ELSE <<[c |-> Head(seq), s |-> Score(Head(seq), interests, career_goal)]>>
         \o WithScore(Tail(seq))

\* insert x behind every element whose key is at least x's (stable, descending)
RECURSIVE InsertDesc(_, _)
InsertDesc(sorted, x) ==
    IF sorted = <<>> THEN <<x>>
    ELSE IF Head(sorted).s >= x.s THEN <<Head(sorted)>> \o InsertDesc(Tail(sorted), x)
    ELSE <<x>> \o sorted

RECURSIVE SortDesc(_, _)
SortDesc(keyed, sorted) ==
    IF keyed = <<>> THEN sorted
    ELSE SortDesc(Tail(keyed), InsertDesc(sorted, Head(keyed)))

\* list.sort(key=score, reverse=True): stable, ties keep the list's order
SortByScoreDesc(seq) ==
    LET sorted == SortDesc(WithScore(seq), <<>>)
    IN [r \in 1..Len(sorted) |-> sorted[r].c]

\* mutant: the ranked list is never cut
TopKNoCut(seq) == seq

\* candidates[:top_candidates] when top_candidates > 0
TopK(seq) ==
    IF top_candidates > 0 /\ top_candidates < Len(seq) THEN SubSeq(seq, 1, top_candidates)
    ELSE seq

\* mutant: courses of the in-progress term count as already passed
RankedCandidatesSameTerm(st) ==
    LET taken_prev == courses_taken \cup st.prev \cup st.cur
        chosen_all == st.prev \cup st.cur
        cands == CandidateCoursesForSemester(st.sem, taken_prev)
        fresh == FilterSeq(cands, {c \in SeqRange(cands) : c.course_code \notin chosen_all})
    IN TopK(SortByScoreDesc(fresh))

\* lines 227-235: the ranked, pruned candidates of a search state
RankedCandidates(st) ==
    LET taken_prev == courses_taken \cup st.prev
        chosen_all == st.prev \cup st.cur
        cands == CandidateCoursesForSemester(st.sem, taken_prev)
        fresh == FilterSeq(cands, {c \in SeqRange(cands) : c.course_code \notin chosen_all})
    IN TopK(SortByScoreDesc(fresh))

\* caps_map.get(sem, 20)
CapOf(sem) == IF sem \in DOMAIN caps_map THEN caps_map[sem] ELSE DEFAULT_CAP

(***************************************************************************)
(* plan_until_graduation_astar: the search.                                *)
(***************************************************************************)
StartSem == current_semester + 1

\* mutant: a rejected entry keeps its place and stands for the default cap
RECURSIVE CapsListKeepPlaces(_)
CapsListKeepPlaces(raw) ==
    IF raw = <<>> THEN <<>>
    ELSE (IF IntOk(Head(raw)) /\ Head(raw).v > 0 THEN <<Head(raw).v>> ELSE <<DEFAULT_CAP>>)
         \o CapsListKeepPlaces(Tail(raw))

\* lines 176-193: the entries int() accepts and that are > 0, in order
RECURSIVE CapsList(_)
CapsList(raw) ==
    IF raw = <<>> THEN <<>>
    ELSE (IF IntOk(Head(raw)) /\ Head(raw).v > 0 THEN <<Head(raw).v>> ELSE <<>>)
         \o CapsList(Tail(raw))

\* lines 195-197: assigned in order to the terms start_sem..7
BuildCapsMap(raw) ==
    LET caps_list == CapsList(raw)
        terms == {sem \in StartSem..(GRADUATION_SEM - 1) : sem - StartSem < Len(caps_list)}
    IN [sem \in terms |-> caps_list[sem - StartSem + 1]]

StartState == [sem |-> StartSem, used |-> 0, prev |-> {}, cur |-> {}]

\* mutant: the goal test is one term early
GoalEarly(st) == st.sem >= GRADUATION_SEM - 1

\* goal(state)
Goal(st) == st.sem >= GRADUATION_SEM

\* heuristic(state)
Heuristic(st) == 0

RECURSIVE SumOver(_, _)
SumOver(S, f) ==
    IF S = {} THEN 0
    ELSE LET x == CHOOSE y \in S : TRUE IN f[x] + SumOver(S \ {x}, f)

Max(a, b) == IF a >= b THEN a ELSE b

\* the cost of an add transition (line 249)
AddCost == 0

\* mutant: advancing forgets the credit bonus
AdvanceCostScoreOnly(cur) ==
    LET known == {code \in cur : HasCourse(code)}
        semester_score == SumOver(known, [code \in known |-> Score(CourseByCode(code), interests, career_goal)])
    IN Max(0, ADVANCE_BASE - semester_score)

\* lines 270-282: the cost of advancing out of a state with in-progress set cur
AdvanceCost(cur) ==
    LET known == {code \in cur : HasCourse(code)}
        semester_score == SumOver(known, [code \in known |-> Score(CourseByCode(code), interests, career_goal)])
        semester_sks == SumOver(known, [code \in known |-> SksOrZero(CourseByCode(code))])
        effective == semester_score + SKS_BONUS_PER_SKS * semester_sks
    IN Max(0, ADVANCE_BASE - effective)

\* mutant: the credits of the added course are not counted
AddStateNoCredits(st, code, sks) ==
    [sem |-> st.sem, used |-> st.used, prev |-> st.prev, cur |-> st.cur \cup {code}]

\* lines 250-255
AddState(st, code, sks) ==
    [sem |-> st.sem, used |-> st.used + sks, prev |-> st.prev, cur |-> st.cur \cup {code}]

\* lines 264-269
NextState(st) ==
    [sem |-> st.sem + 1, used |-> 0, prev |-> st.prev \cup st.cur, cur |-> {}]

\* mutant: a state's first recorded cost is never replaced
CheaperFirstOnly(g, tentative_g, new_state) == new_state \notin DOMAIN g

\* mutant: a path of equal cost also replaces the record
CheaperOrEqual(g, tentative_g, new_state) ==
    new_state \notin DOMAIN g \/ tentative_g <= g[new_state]

\* tentative_g < g_cost.get(new_state, float("inf"))
Cheaper(g, tentative_g, new_state) ==
    new_state \notin DOMAIN g \/ tentative_g < g[new_state]

\* lines 258-261 and 285-288: record cost and predecessor, push on the heap
Relax(acc, from, new_state, tentative_g, typ, code) ==
    [g |-> [x \in DOMAIN acc.g \cup {new_state} |->
               IF x = new_state THEN tentative_g ELSE acc.g[x]],
     keys |-> IF new_state \in DOMAIN acc.g THEN acc.keys ELSE Append(acc.keys, new_state),
     cf |-> [x \in DOMAIN acc.cf \cup {new_state} |->
               IF x = new_state THEN [prev |-> from, typ |-> typ, code |-> code]
               ELSE acc.cf[x]],
     heap |-> acc.heap \cup {[f |-> tentative_g + Heuristic(new_state), st |-> new_state]}]

\* mutant: the credit test forgets the cap
FitsNoCap(st, sks) == sks > 0

\* line 243: the credit test of an add transition
Fits(st, sks) == sks > 0 /\ st.used + sks <= CapOf(st.sem)

\* lines 237-261: the loop over the candidates of the popped state
RECURSIVE AddLoop(_, _, _, _)
AddLoop(cands, i, st, acc) ==
    IF i > Len(cands) THEN acc
    ELSE LET c == cands[i]
             sks == SksOrZero(c)
             new_state == AddState(st, c.course_code, sks)
             tentative_g == acc.g[st] + AddCost
         IN IF ~Fits(st, sks) THEN AddLoop(cands, i + 1, st, acc)
            ELSE IF Cheaper(acc.g, tentative_g, new_state)
                 THEN AddLoop(cands, i + 1, st,
                              Relax(acc, st, new_state, tentative_g, "add", c.course_code))
                 ELSE AddLoop(cands, i + 1, st, acc)

\* lines 263-288: the advance transition
AdvanceStep(st, acc) ==
    LET next_state == NextState(st)
        tentative_g == acc.g[st] + AdvanceCost(st.cur)
    IN IF Cheaper(acc.g, tentative_g, next_state)
       THEN Relax(acc, st, next_state, tentative_g, "advance", "")
       ELSE acc

\* heapq orders entries as tuples (f, (sem, used, prev, cur)); f, sem and used
\* are totally ordered, the frozensets only by inclusion, so the entry popped
\* is some entry with the least (f, sem, used)
KeyLess(a, b) ==
    \/ a.f < b.f
    \/ a.f = b.f /\ a.st.sem < b.st.sem
    \/ a.f = b.f /\ a.st.sem = b.st.sem /\ a.st.used < b.st.used

\* the comparison heapq applies to two entries, Python's a < b on the tuples
\* (f, (sem, used, prev, cur)): decided at the first component that differs,
\* a frozenset being less than another when it is a proper subset of it
EntryLess(a, b) ==
    IF a.f # b.f THEN a.f < b.f
    ELSE IF a.st.sem # b.st.sem THEN a.st.sem < b.st.sem
    ELSE IF a.st.used # b.st.used THEN a.st.used < b.st.used
    ELSE IF a.st.prev # b.st.prev THEN a.st.prev \subseteq b.st.prev
    ELSE IF a.st.cur # b.st.cur THEN a.st.cur \subseteq b.st.cur
    ELSE FALSE

\* mutant: the open list is not kept in cost order
PoppableAny(heap) == heap

Poppable(heap) == {e \in heap : \A o \in heap : ~KeyLess(o, e)}

(***************************************************************************)
(* Result selection, reconstruction and the schedule (lines 290-340).      *)
(***************************************************************************)
\* min(seq of states, key): the first state of keys, in insertion order,
\* that no other state beats
FirstMin(keys, eligible, better(_, _)) ==
    keys[CHOOSE i \in 1..Len(keys) :
            /\ keys[i] \in eligible
            /\ \A j \in 1..Len(keys) : keys[j] \in eligible => ~better(keys[j], keys[i])
            /\ \A j \in 1..(i - 1) :
                  keys[j] \in eligible => \E k \in 1..Len(keys) :
                      keys[k] \in eligible /\ better(keys[k], keys[j])]

\* lines 291-296
PickBestState(g, keys) ==
    LET goal_states == {st \in DOMAIN g : st.sem >= GRADUATION_SEM}
        byCost(a, b) == g[a] < g[b]
        bySemThenCost(a, b) == a.sem > b.sem \/ (a.sem = b.sem /\ g[a] < g[b])
    IN IF goal_states # {} THEN FirstMin(keys, goal_states, byCost)
       ELSE FirstMin(keys, DOMAIN g, bySemThenCost)

\* lines 299-306: the recorded transitions from the start to node, in order;
\* each is [typ, code, sem_at]
RECURSIVE Actions(_, _)
Actions(cf, node) ==
    IF node \notin DOMAIN cf THEN <<>>
    ELSE Append(Actions(cf, cf[node].prev),
                [typ |-> cf[node].typ, code |-> cf[node].code, sem_at |-> cf[node].prev.sem])

\* mutant: an added course is appended to every term's list
RECURSIVE ScheduleCodesAnyTerm(_, _, _)
ScheduleCodesAnyTerm(actions, sem, chosen_codes) ==
    IF actions = <<>> THEN <<>>
    ELSE LET a == Head(actions)
             skip == \/ a.typ # "add"
                     \/ a.sem_at < StartSem \/ a.sem_at > GRADUATION_SEM - 1
                     \/ a.code \in chosen_codes
                     \/ ~HasCourse(a.code)
         IN IF skip THEN ScheduleCodesAnyTerm(Tail(actions), sem, chosen_codes)
            ELSE <<a.code>> \o ScheduleCodesAnyTerm(Tail(actions), sem, chosen_codes \cup {a.code})

\* lines 309-322: the codes appended to schedule_map[sem], in order
RECURSIVE ScheduleCodes(_, _, _)
ScheduleCodes(actions, sem, chosen_codes) ==
    IF actions = <<>> THEN <<>>
    ELSE LET a == Head(actions)
             skip == \/ a.typ # "add"
                     \/ a.sem_at < StartSem \/ a.sem_at > GRADUATION_SEM - 1
                     \/ a.code \in chosen_codes
                     \/ ~HasCourse(a.code)
         IN IF skip THEN ScheduleCodes(Tail(actions), sem, chosen_codes)
            ELSE (IF a.sem_at = sem THEN <<a.code>> ELSE <<>>)
                 \o ScheduleCodes(Tail(actions), sem, chosen_codes \cup {a.code})

RECURSIVE SumSks(_)
SumSks(codes) ==
    IF codes = <<>> THEN 0 ELSE SksOrZero(CourseByCode(Head(codes))) + SumSks(Tail(codes))

\* mutant: the schedule runs through the graduation term
BuildScheduleThrough8(actions) ==
    [i \in 1..Max(0, GRADUATION_SEM + 1 - StartSem) |->
        LET sem == StartSem + i - 1
            codes == ScheduleCodes(actions, sem, {})
        IN [semester |-> sem, courses |-> codes, sks |-> SumSks(codes)]]

\* mutant: a term without courses gets no entry
BuildScheduleNonEmptyTerms(actions) ==
    LET full == [i \in 1..Max(0, GRADUATION_SEM - StartSem) |->
                    LET sem == StartSem + i - 1
                        codes == ScheduleCodes(actions, sem, {})
                    IN [semester |-> sem, courses |-> codes, sks |-> SumSks(codes)]]
    IN SelectSeq(full, LAMBDA e : e.courses # <<>>)

\* lines 325-334: one entry per term of range(start_sem, 8)
BuildSchedule(actions) ==
    [i \in 1..Max(0, GRADUATION_SEM - StartSem) |->
        LET sem == StartSem + i - 1
            codes == ScheduleCodes(actions, sem, {})
        IN [semester |-> sem, courses |-> codes, sks |-> SumSks(codes)]]

(***************************************************************************)
(* CourseRecommender.recommend_courses.  A string argument is StrTok(s)    *)
(* (already stripped), a string of digits NumStr(n).                       *)
(***************************************************************************)
StrTok(s) == [k |-> "tok", v |-> 0, s |-> s]
NumStr(n) == [k |-> "numstr", v |-> n]

LowerTok(s) ==
    CASE s = "Odd" -> "odd"
      [] s = "Genap" -> "genap"
      [] s = "GASAL" -> "gasal"
      [] OTHER -> s

OddTokens == {"gasal", "ganjil", "odd"}
EvenTokens == {"genap", "even"}

\* _expand_semester_pref (lines 225-235)
ExpandSemesterPref(pref) ==
    CASE pref.k = "int" -> <<pref.v>>
      [] pref.k = "tok" ->
            IF LowerTok(pref.s) \in OddTokens THEN <<1, 3, 5, 7>>
            ELSE IF LowerTok(pref.s) \in EvenTokens THEN <<2, 4, 6, 8>>
            ELSE <<>>
      [] pref.k = "numstr" -> <<pref.v>>
      [] OTHER -> <<>>

\* mutant: the last term also has a next term
ExpandNextNoLastTerm(cur) ==
    CASE cur.k = "int" -> IF 1 <= cur.v THEN <<cur.v + 1>> ELSE <<>>
      [] cur.k = "tok" ->
            IF LowerTok(cur.s) \in OddTokens THEN <<2, 4, 6, 8>>
            ELSE IF LowerTok(cur.s) \in EvenTokens THEN <<1, 3, 5, 7>>
            ELSE <<>>
      [] cur.k = "numstr" -> IF 1 <= cur.v THEN <<cur.v + 1>> ELSE <<>>
      [] OTHER -> <<>>

\* _expand_next_from_current (lines 237-258)
ExpandNextFromCurrent(cur) ==
    CASE cur.k = "int" -> IF 1 <= cur.v /\ cur.v < 8 THEN <<cur.v + 1>> ELSE <<>>
      [] cur.k = "tok" ->
            IF LowerTok(cur.s) \in OddTokens THEN <<2, 4, 6, 8>>
            ELSE IF LowerTok(cur.s) \in EvenTokens THEN <<1, 3, 5, 7>>
            ELSE <<>>
      [] cur.k = "numstr" -> IF 1 <= cur.v /\ cur.v < 8 THEN <<cur.v + 1>> ELSE <<>>
      [] OTHER -> <<>>

RECURSIVE ExpandAll(_)
ExpandAll(items) ==
    IF items = <<>> THEN <<>> ELSE ExpandSemesterPref(Head(items)) \o ExpandAll(Tail(items))

\* lines 263-271: sem_pref_acc; semester_preference is [given, items], a
\* scalar preference being the one-item list
SemPrefAcc(semester_preference, cur) ==
    IF semester_preference.given THEN ExpandAll(semester_preference.items)
    ELSE IF cur.k # "none" THEN ExpandNextFromCurrent(cur)
    ELSE <<>>

\* line 274: sem_pref_set is None when nothing was accumulated
SemPrefGiven(args) == SemPrefAcc(args.semester_preference, args.current_semester) # <<>>

SemPrefSet(args) == SeqRange(SemPrefAcc(args.semester_preference, args.current_semester))

\* mutant: the taken test is dropped
AlreadyTakenNever(code) == FALSE

\* line 284: the course has already been taken
AlreadyTaken(code) == code \in courses_taken

\* mutant: the marker is looked for without lower-casing the label
IsMandatoryCaseSensitive(course) == Contains(course.type, <<"wajib">>)

\* lines 287-290: the type label carries the mandatory marker
IsMandatory(course) == Contains(Lower(course.type), <<"wajib">>)

\* mutant: an entry with an empty list is accepted
HasPrereqRuleEntryOnly(code) == code \in DOMAIN prereq

\* lines 292-299: the course has a rule entry with a non-empty list
HasPrereqRule(code) == code \in DOMAIN prereq /\ prereq[code] # <<>>

\* mutant: the prerequisites are not compared with the taken set
StrictPrereqsUnchecked(code) == TRUE

\* mutant: corequisites must be taken as well
StrictAndCoreqTaken(code) ==
    (NonCoreq(prereq[code]) \cup Coreq(prereq[code])) \subseteq courses_taken

\* lines 305-307: every non-corequisite prerequisite is taken
StrictPrereqsTaken(code) == NonCoreq(prereq[code]) \subseteq courses_taken

\* lines 309-320: the term filter
PassesSemesterFilter(course, args) ==
    ~(SemPrefGiven(args) /\ SemsInt(course) # {} /\ SemsInt(course) \cap SemPrefSet(args) = {})

\* mutant: a credit weight that is not an integer passes the strict filter
PassesSksFilterMalformedPasses(course, args) ==
    (args.sks_must_match /\ args.sks_preference.given) =>
        (IntOk(course.sks) => course.sks.v \in args.sks_preference.set)

\* lines 322-329: the strict credit filter
PassesSksFilter(course, args) ==
    (args.sks_must_match /\ args.sks_preference.given) =>
        (IntOk(course.sks) /\ course.sks.v \in args.sks_preference.set)

\* lines 278-329: the eligibility filter of the recommender
Eligible(course, args) ==
    /\ course.course_code # ""
    /\ ~AlreadyTaken(course.course_code)
    /\ ~IsMandatory(course)
    /\ HasPrereqRule(course.course_code)
    /\ StrictPrereqsTaken(course.course_code)
    /\ PassesSemesterFilter(course, args)
    /\ PassesSksFilter(course, args)

\* lines 331-405: the contributions, in the order the code adds them; each is
\* [pts, why]
Contributions(course, args) ==
    LET code == course.course_code
        non_coreq == NonCoreq(prereq[code])
        coreq == Coreq(prereq[code])
        matches == MatchesInterest(course, interests)
        lab_cat == LabCategory(course.type)
        lab_pref == LabPreferencesForCareer(career_goal)
        ctype == Lower(course.type)
        one(cond, pts, why) == IF cond THEN <<[pts |-> pts, why |-> why]>> ELSE <<>>
    IN one(non_coreq = {} \/ non_coreq \subseteq courses_taken, 50,
           IF non_coreq # {} THEN "prereq_satisfied" ELSE "no_strict_prereq")
       \o one(coreq # {}, 20, "has_coreq")
       \o one(coreq # {} /\ coreq \subseteq courses_taken, 10, "coreq_taken")
       \o one(matches > 0, 15 * matches, "interest")
       \o one(career_goal # <<>> /\ CareerRelevance(course, career_goal), 10, "career")
       \o one(args.sks_preference.given /\ IntOk(course.sks)
              /\ course.sks.v \in args.sks_preference.set, 5, "sks_match")
       \o one(lab_cat # "none" /\ lab_pref # <<>> /\ InSeq(lab_pref, lab_cat),
              IF InSeq(lab_pref, lab_cat) THEN LabBonus(IndexOf(lab_pref, lab_cat)) ELSE 0, "lab")
       \o one(SemPrefGiven(args) /\ SemsInt(course) # {}
              /\ SemsInt(course) \cap SemPrefSet(args) # {}, 15, "semester")
       \o one(SemPrefGiven(args) /\ SemsInt(course) = {}, 0, "semester_unavailable")
       \o one(Contains(ctype, <<"wajib", "program", "studi">>)
              \/ Contains(ctype, <<"wajib", "prodi">>), 5, "priority")

RECURSIVE SumPts(_)
SumPts(cs) == IF cs = <<>> THEN 0 ELSE Head(cs).pts + SumPts(Tail(cs))

\* lines 407-416: the record appended to evaluated
Evaluate(course, args) ==
    LET cs == Contributions(course, args)
    IN [course_code |-> course.course_code, sks |-> course.sks,
        score |-> SumPts(cs), reason |-> [i \in 1..Len(cs) |-> cs[i].why]]

RECURSIVE Evaluated(_, _)
Evaluated(cs, args) ==
    IF cs = <<>> THEN <<>>
    ELSE (IF Eligible(Head(cs), args) THEN <<Evaluate(Head(cs), args)>> ELSE <<>>)
         \o Evaluated(Tail(cs), args)

\* x.get("sks") or 0: None and 0 give 0; a string stays a string
SksKey(x) == IF x.sks.k = "int" THEN [k |-> "int", v |-> x.sks.v]
             ELSE IF x.sks.k = "none" THEN [k |-> "int", v |-> 0]
             ELSE [k |-> "str", v |-> 0]

\* comparing the keys (-score, sks or 0, code) raises TypeError when the scores
\* tie and one credit weight is a string, the other a number
Incomparable(x, y) == x.score = y.score /\ SksKey(x).k # SksKey(y).k

\* codes are compared as strings
CodeRank(code) == IndexOf(<<"A", "A2", "B", "C", "D", "W">>, code)

\* mutant: ties on the score are decided by the code alone
KeyBeforeNoWeight(x, y) ==
    \/ x.score > y.score
    \/ x.score = y.score /\ CodeRank(x.course_code) < CodeRank(y.course_code)

\* the key order of line 419 on comparable records:
\* (-score, sks or 0, course_code) ascending
KeyBefore(x, y) ==
    \/ x.score > y.score
    \/ x.score = y.score /\ SksKey(x).v < SksKey(y).v
    \/ x.score = y.score /\ SksKey(x).v = SksKey(y).v
       /\ CodeRank(x.course_code) < CodeRank(y.course_code)

\* sorted() is stable: x goes behind every record it is not strictly before
RECURSIVE InsertByKey(_, _)
InsertByKey(sorted, x) ==
    IF sorted = <<>> THEN <<x>>
    ELSE IF KeyBefore(x, Head(sorted)) THEN <<x>> \o sorted
    ELSE <<Head(sorted)>> \o InsertByKey(Tail(sorted), x)

RECURSIVE SortByKey(_, _)
SortByKey(todo, sorted) ==
    IF todo = <<>> THEN sorted ELSE SortByKey(Tail(todo), InsertByKey(sorted, Head(todo)))

\* sorted(...) raises when two records it compares are incomparable; a list
\* of two records is sorted by comparing them
SortRaises(evaluated) ==
    \E i, j \in 1..Len(evaluated) : i # j /\ Incomparable(evaluated[i], evaluated[j])

\* [:top_n] for top_n >= 0
Truncate(seq, n) == IF n < Len(seq) THEN SubSeq(seq, 1, n) ELSE seq

\* lines 418-422
RecommendCourses(args) == Truncate(SortByKey(Evaluated(courses, args), <<>>), args.top_n)

(***************************************************************************)
(* Inputs.                                                                 *)
(***************************************************************************)
TakenChoices == SUBSET {"A", "B"}

ProfileChoices ==
    { [interests |-> <<>>, career |-> <<>>],
      [interests |-> << <<"machine", "learning">>, <<"AI">> >>, career |-> <<"Data", "scientist">>],
      [interests |-> <<>>, career |-> <<"Graph", "guru">>] }

\* (per_semester_caps, top_candidates, max_expansions) of a planner call
PlanArgs ==
    { [caps |-> <<>>, top |-> DEFAULT_TOP_CANDIDATES, max |-> DEFAULT_MAX_EXPANSIONS],
      [caps |-> <<IntV(3)>>, top |-> DEFAULT_TOP_CANDIDATES, max |-> DEFAULT_MAX_EXPANSIONS],
      [caps |-> <<IntV(5), IntV(2)>>, top |-> DEFAULT_TOP_CANDIDATES, max |-> DEFAULT_MAX_EXPANSIONS],
      [caps |-> <<IntV(5), IntV(2)>>, top |-> 1, max |-> DEFAULT_MAX_EXPANSIONS],
      [caps |-> <<StrV, IntV(0), IntV(18)>>, top |-> 0, max |-> SmallBudget],
      [caps |-> <<>>, top |-> 1, max |-> 0] }

NoPref == [given |-> FALSE, items |-> <<>>]
NoSks == [given |-> FALSE, set |-> {}]

NoRecArgs == [sks_preference |-> NoSks, semester_preference |-> NoPref,
              current_semester |-> NoneV, sks_must_match |-> FALSE, top_n |-> 3]

\* (sks_preference, semester_preference, current_semester, sks_must_match,
\* top_n) of a recommender call; cur is the student's current term
RecArgs(cur) ==
    { NoRecArgs,
      [NoRecArgs EXCEPT !.current_semester = IntV(cur)],
      [NoRecArgs EXCEPT !.current_semester = IntV(cur), !.top_n = 1],
      [NoRecArgs EXCEPT !.current_semester = IntV(cur), !.top_n = 0],
      [NoRecArgs EXCEPT !.current_semester = StrTok("GASAL"),
                        !.sks_preference = [given |-> TRUE, set |-> {2, 3}]],
      [NoRecArgs EXCEPT !.current_semester = IntV(cur),
                        !.sks_preference = [given |-> TRUE, set |-> {2}],
                        !.sks_must_match = TRUE],
      [NoRecArgs EXCEPT !.semester_preference = [given |-> TRUE, items |-> <<StrTok("Odd")>>],
                        !.current_semester = IntV(cur)],
      [NoRecArgs EXCEPT !.semester_preference = [given |-> TRUE, items |-> <<IntV(6), NumStr(8)>>]],
      [NoRecArgs EXCEPT !.semester_preference = [given |-> TRUE, items |-> <<StrV>>],
                        !.current_semester = IntV(cur)],
      [NoRecArgs EXCEPT !.semester_preference = [given |-> TRUE, items |-> <<StrTok("Genap")>>]],
      [NoRecArgs EXCEPT !.current_semester = StrTok("even")] }

NoState == [sem |-> 0, used |-> 0, prev |-> {}, cur |-> {}]

Init ==
    /\ missing_files \in SUBSET KnowledgeFiles
    /\ \E cat \in Catalogues : courses = LoadCourses(missing_files, cat)
    /\ \E rules \in {PrereqRules, EmptyRules} : prereq = LoadPrereqRules(missing_files, rules)
    /\ courses_taken \in TakenChoices
    /\ \E p \in ProfileChoices : interests = p.interests /\ career_goal = p.career
    /\ current_semester \in (GRADUATION_SEM - Horizon)..GRADUATION_SEM
    /\ pc = "idle"
    /\ per_semester_caps = <<>>
    /\ top_candidates = DEFAULT_TOP_CANDIDATES
    /\ max_expansions = DEFAULT_MAX_EXPANSIONS
    /\ caps_map = <<>>
    /\ open_heap = {}
    /\ g_cost = <<>>
    /\ g_keys = <<>>
    /\ came_from = <<>>
    /\ expansions = 0
    /\ stop = "none"
    /\ best_state = NoState
    /\ schedule = <<>>
    /\ rec_args = NoRecArgs
    /\ recommended = <<>>
    /\ rec_error = FALSE
    /\ conv = "END"
    /\ user_data = NoData
    /\ calls = <<>>
    /\ updates = 0
    /\ last_update = NoUpdate

\* mutant: the loop forgets its expansion budget
LoopTestNoBudget == open_heap # {}

\* line 218: while open_heap and expansions < max_expansions
LoopTest == open_heap # {} /\ expansions < max_expansions

\* _load_json (lines 16-18) opens the path without testing that it exists
LoadJsonRaises(missing) == missing # {}

\* CoursePlanner.__init__ (lines 31-34) over a missing file: FileNotFoundError
PlannerInitRaises ==
    /\ pc = "idle"
    /\ LoadJsonRaises(missing_files)
    /\ pc' = "init_error"
    /\ UNCHANGED planvars
    /\ UNCHANGED profile
    /\ UNCHANGED botvars
    /\ UNCHANGED recvars

\* lines 173-214: the call on a constructed planner, up to the first test of
\* the loop
StartPlanner ==
    /\ pc = "idle"
    /\ ~LoadJsonRaises(missing_files)
    /\ \E a \in PlanArgs :
          /\ per_semester_caps' = a.caps
          /\ top_candidates' = a.top
          /\ max_expansions' = a.max
          /\ caps_map' = BuildCapsMap(a.caps)
    /\ open_heap' = {[f |-> 0, st |-> StartState]}
    /\ g_cost' = [x \in {StartState} |-> 0]
    /\ g_keys' = <<StartState>>
    /\ came_from' = [x \in {} |-> NoState]
    /\ expansions' = 0
    /\ pc' = "search"
    /\ UNCHANGED <<stop, best_state, schedule>>
    /\ UNCHANGED profile
    /\ UNCHANGED botvars
    /\ UNCHANGED recvars

\* lines 218-288: one iteration that pops a state short of the goal
Expand ==
    /\ pc = "search"
    /\ LoopTest
    /\ \E e \in Poppable(open_heap) :
          /\ ~Goal(e.st)
          /\ LET acc0 == [g |-> g_cost, keys |-> g_keys, cf |-> came_from,
                          heap |-> open_heap \ {e}]
                 acc1 == AddLoop(RankedCandidates(e.st), 1, e.st, acc0)
                 acc2 == AdvanceStep(e.st, acc1)
             IN /\ g_cost' = acc2.g
                /\ g_keys' = acc2.keys
                /\ came_from' = acc2.cf
                /\ open_heap' = acc2.heap
    /\ expansions' = expansions + 1
    /\ UNCHANGED <<pc, stop, best_state, schedule, per_semester_caps, top_candidates,
                   max_expansions, caps_map>>
    /\ UNCHANGED profile
    /\ UNCHANGED botvars
    /\ UNCHANGED recvars

\* lines 219-224: the iteration that pops a goal state and breaks
PopGoal ==
    /\ pc = "search"
    /\ LoopTest
    /\ \E e \in Poppable(open_heap) :
          /\ Goal(e.st)
          /\ open_heap' = open_heap \ {e}
    /\ expansions' = expansions + 1
    /\ stop' = "goal"
    /\ pc' = "select"
    /\ UNCHANGED <<g_cost, g_keys, came_from, best_state, schedule, per_semester_caps,
                   top_candidates, max_expansions, caps_map>>
    /\ UNCHANGED profile
    /\ UNCHANGED botvars
    /\ UNCHANGED recvars

\* line 218: the loop test fails
LoopExit ==
    /\ pc = "search"
    /\ ~LoopTest
    /\ stop' = IF open_heap = {} THEN "empty" ELSE "budget"
    /\ pc' = "select"
    /\ UNCHANGED <<open_heap, g_cost, g_keys, came_from, expansions, best_state, schedule,
                   per_semester_caps, top_candidates, max_expansions, caps_map>>
    /\ UNCHANGED profile
    /\ UNCHANGED botvars
    /\ UNCHANGED recvars

\* lines 290-340: choose the state, replay its transitions, return the schedule
Finish ==
    /\ pc = "select"
    /\ best_state' = PickBestState(g_cost, g_keys)
    /\ schedule' = BuildSchedule(Actions(came_from, PickBestState(g_cost, g_keys)))
    /\ pc' = "done"
    /\ UNCHANGED <<open_heap, g_cost, g_keys, came_from, expansions, stop,
                   per_semester_caps, top_candidates, max_expansions, caps_map>>
    /\ UNCHANGED profile
    /\ UNCHANGED botvars
    /\ UNCHANGED recvars

\* recommend_courses (lines 185-422), one call
Recommend ==
    /\ pc = "idle"
    /\ \E args \in RecArgs(current_semester) :
          /\ rec_args' = args
          /\ rec_error' = SortRaises(Evaluated(courses, args))
          /\ recommended' = IF SortRaises(Evaluated(courses, args)) THEN <<>>
                            ELSE RecommendCourses(args)
    /\ pc' = "rec_done"
    /\ UNCHANGED planvars
    /\ UNCHANGED profile
    /\ UNCHANGED botvars

(***************************************************************************)
(* scripts/test_smart_course_planner.py: main imports the planner entry    *)
(* point by name from the module and calls it with keyword arguments.      *)
(***************************************************************************)
\* the names smart_course_planner.py binds at module level (lines 1-21)
PlannerModuleNames ==
    {"annotations", "Path", "Any", "Dict", "List", "Optional", "Set", "FrozenSet",
     "Tuple", "Union", "json", "heapq", "sys", "_P", "CourseRecommender",
     "DATA_DIR", "COURSES_PATH", "PREREQ_PATH", "_load_json", "CoursePlanner"}

\* the parameters of CoursePlanner.plan_until_graduation_astar (lines 145-155)
AstarParams ==
    {"name", "courses_taken", "interests", "career_goal", "current_semester",
     "per_semester_caps", "top_candidates", "max_expansions"}

\* the keywords of the call in main (lines 24-32)
ScriptKeywords ==
    {"name", "courses_taken", "interests", "career_goal", "current_semester",
     "per_semester_sks_cap", "per_semester_count_cap"}

\* from smart_course_planner import <name> (line 12)
ImportRaises(name) == name \notin PlannerModuleNames

\* a call with a keyword the function does not declare raises TypeError
CallRaises(keywords) == ~(keywords \subseteq AstarParams)

\* main (lines 6-37): import, call, print; exit status 1 on an import error,
\* 2 on a run error
ScriptMain ==
    /\ pc = "idle"
    /\ pc' = IF ImportRaises("plan_until_graduation_astar") THEN "script_exit_1"
             ELSE IF CallRaises(ScriptKeywords) THEN "script_exit_2"
             ELSE "script_plan"
    /\ UNCHANGED planvars
    /\ UNCHANGED profile
    /\ UNCHANGED botvars
    /\ UNCHANGED recvars

Next == ScriptMain \/ PlannerInitRaises \/ StartPlanner \/ Expand \/ PopGoal \/ LoopExit \/ Finish \/ Recommend

Spec == Init /\ [][Next]_vars

(***************************************************************************)
(* Properties of the planner.                                              *)
(***************************************************************************)
Done == pc = "done"

\* the terms the returned schedule has an entry for, in order
ScheduleTerms == [i \in 1..Len(schedule) |-> schedule[i].semester]

\* the codes the returned schedule places in term t
PlacedIn(t) == UNION {SeqRange(schedule[i].courses) : i \in {j \in 1..Len(schedule) : schedule[j].semester = t}}

PlacedBefore(t) == UNION {PlacedIn(u) : u \in 0..(t - 1)}

PlacedTerms == {schedule[i].semester : i \in {j \in 1..Len(schedule) : schedule[j].courses # <<>>}}

\* the credit weight of a course record: its sks when it is an integer
CreditWeight(code) == IF IntOk(CourseByCode(code).sks) THEN CourseByCode(code).sks.v ELSE 0

TermCredits(t) == SumOver(PlacedIn(t), [code \in PlacedIn(t) |-> CreditWeight(code)])

\* C1: in the returned schedule the credit weights of the courses placed in a
\* term sum to at most that term's cap (the cap supplied for it, else 20)
C1_CreditCapRespected ==
    Done => \A t \in SeqRange(ScheduleTerms) : TermCredits(t) <= CapOf(t)

\* a term filled exactly to a supplied cap by two courses
C1_Witness ==
    /\ Done
    /\ \E t \in SeqRange(ScheduleTerms) :
          /\ t \in DOMAIN caps_map
          /\ Cardinality(PlacedIn(t)) >= 2
          /\ TermCredits(t) = CapOf(t)

\* C2: every course placed in term t is an elective, is offered in t or has
\* no offering term, and each non-corequisite prerequisite of its rule is
\* taken or placed in a term strictly before t
C2_PlacedCoursesEligible ==
    Done => \A t \in SeqRange(ScheduleTerms) : \A code \in PlacedIn(t) :
        /\ HasCourse(code)
        /\ ~Contains(Lower(CourseByCode(code).type), <<"wajib">>)
        /\ (SemsInt(CourseByCode(code)) = {} \/ t \in SemsInt(CourseByCode(code)))
        /\ code \in DOMAIN prereq =>
              \A i \in 1..Len(prereq[code]) :
                  ~prereq[code][i].is_corequisite =>
                      prereq[code][i].code \in courses_taken \cup PlacedBefore(t)

\* a placed course whose prerequisite was not taken but placed one term earlier
C2_Witness ==
    /\ Done
    /\ "A" \notin courses_taken
    /\ "B" \in DOMAIN prereq
    /\ "B" \in PlacedIn(7)
    /\ "A" \in PlacedIn(6)

\* C3 (as claimed): no term of the returned schedule holds a taken course
C3_NoTakenCoursePlanned ==
    Done => \A t \in SeqRange(ScheduleTerms) : PlacedIn(t) \cap courses_taken = {}

\* C7 (as claimed): one entry per term, ascending, for current_term + 1 .. 8
C7_EntriesThroughTerm8 ==
    Done => ScheduleTerms = [i \in 1..Max(0, GRADUATION_SEM - current_semester) |-> current_semester + i]

\* C7 (amended): one entry per term, ascending, for current_term + 1 .. 7; a
\* student in term 7 or 8 gets an empty schedule
C7_EntriesThroughTerm7 ==
    Done => ScheduleTerms = [i \in 1..Max(0, GRADUATION_SEM - 1 - current_semester) |-> current_semester + i]

\* a returned schedule of several terms, and the empty one of a term-7 student
C7_Witness ==
    /\ Done
    /\ \/ Len(schedule) >= 2 /\ PlacedTerms # {}
       \/ current_semester = 7 /\ schedule = <<>>

\* C8: when the loop ends short of its budget the chosen state has term >= 8,
\* and no add transition is recorded, nor any course placed, before
\* current_term + 1
C8_GoalReachedAndNoEarlyTerm ==
    /\ (Done /\ (stop # "budget" \/ expansions < max_expansions)) => best_state.sem >= GRADUATION_SEM
    /\ \A st \in DOMAIN came_from : came_from[st].prev.sem >= current_semester + 1
    /\ Done => \A t \in PlacedTerms : t >= current_semester + 1

\* a plan with courses, found with budget to spare
C8_Witness ==
    /\ Done
    /\ stop = "goal"
    /\ expansions < max_expansions
    /\ best_state.sem = GRADUATION_SEM
    /\ PlacedTerms # {}

\* the least of a non-empty set of integers
MinOf(S) == CHOOSE x \in S : \A y \in S : x <= y

\* the add successors of a state in the pruned search graph
AddSuccessors(st) ==
    LET cands == RankedCandidates(st)
    IN {AddState(st, cands[i].course_code, SksOrZero(cands[i])) :
           i \in {j \in 1..Len(cands) : Fits(st, SksOrZero(cands[j]))}}

\* the least total transition cost of a path from st to a state with term >= 8
RECURSIVE MinCostToGoal(_)
MinCostToGoal(st) ==
    IF st.sem >= GRADUATION_SEM THEN 0
    ELSE MinOf({AdvanceCost(st.cur) + MinCostToGoal(NextState(st))}
               \cup {AddCost + MinCostToGoal(s) : s \in AddSuccessors(st)})

\* the total cost of the recorded transitions that lead to node
RECURSIVE ChainCost(_)
ChainCost(node) ==
    IF node \notin DOMAIN came_from THEN 0
    ELSE ChainCost(came_from[node].prev)
         + (IF came_from[node].typ = "add" THEN AddCost
            ELSE AdvanceCost(came_from[node].prev.cur))

\* C9: when the loop ends by popping a goal state, the cost recorded for the
\* chosen state is the least cost of any path of the pruned graph from the
\* initial state to a state with term >= 8, and it is the cost of the
\* reconstructed transition sequence, which starts at the initial state
C9_ReturnedCostIsMinimal ==
    (Done /\ stop = "goal") =>
        /\ best_state.sem >= GRADUATION_SEM
        /\ g_cost[best_state] = MinCostToGoal(StartState)
        /\ g_cost[best_state] = ChainCost(best_state)

\* an optimal plan with courses, found by a search in which the advance cost
\* of some generated state is clipped at 0
C9_Witness ==
    /\ Done
    /\ stop = "goal"
    /\ g_cost[best_state] = MinCostToGoal(StartState)
    /\ \E st \in DOMAIN g_cost : ADVANCE_BASE - 60 * st.used < 0
    /\ g_cost[best_state] < ADVANCE_BASE
    /\ PlacedTerms # {}

\* the states recorded in g_cost that have reached the goal term
GoalStates == {st \in DOMAIN g_cost : st.sem >= GRADUATION_SEM}

\* C10: the loop never expands more than max_expansions states and ends:
\* every iteration uses up one unit of the budget, and while the loop test
\* holds some entry can be popped; once returned, when no state with term >= 8
\* was generated, the plan is the one reconstructed from the generated state
\* of greatest term, and among those of least recorded cost
C10_BudgetAndPartialPlan ==
    /\ [](expansions <= max_expansions)
    /\ []((pc = "search" /\ LoopTest) => Poppable(open_heap) # {})
    /\ [][pc = "search" =>
            \/ pc' = "search" /\ expansions' = expansions + 1
            \/ pc' = "select" /\ expansions' <= expansions + 1]_vars
    /\ []((Done /\ GoalStates = {}) =>
            /\ best_state \in DOMAIN g_cost
            /\ \A st \in DOMAIN g_cost :
                  \/ st.sem < best_state.sem
                  \/ st.sem = best_state.sem /\ g_cost[st] >= g_cost[best_state]
            /\ schedule = BuildSchedule(Actions(came_from, best_state)))

\* the budget ran out before any goal state was generated; two states of the
\* greatest term differ in cost, and the partial plan places a course
C10_Witness ==
    /\ Done
    /\ stop = "budget"
    /\ expansions = max_expansions
    /\ GoalStates = {}
    /\ \E st \in DOMAIN g_cost : st.sem = best_state.sem /\ g_cost[st] > g_cost[best_state]
    /\ PlacedTerms # {}

\* the states whose recorded cost this step sets or replaces
Recorded == {x \in DOMAIN g_cost' : x \notin DOMAIN g_cost \/ g_cost'[x] # g_cost[x]}

\* 15 per matching interest, 10 when career-relevant, and the lab-tier bonus
\* 20/12/6/3/2 by the rank of the course's lab in the career's lab list
ScoreOf(code) ==
    LET c == CourseByCode(code)
        labs == LabPreferencesForCareer(career_goal)
        lab == LabCategory(c.type)
        ranks == {i \in 1..Len(labs) : labs[i] = lab}
        rank == MinOf(ranks) - 1
    IN 15 * MatchesInterest(c, interests)
       + (IF CareerRelevance(c, career_goal) THEN 10 ELSE 0)
       + (IF ranks = {} THEN 0
          ELSE IF rank = 0 THEN 20 ELSE IF rank = 1 THEN 12
          ELSE IF rank = 2 THEN 6 ELSE IF rank = 3 THEN 3 ELSE 2)

\* max(0, 1000 - (sum of scores of S + 60 * sum of credit weights of S))
AdvanceCostOf(S) ==
    LET worth == SumOver(S, [code \in S |-> ScoreOf(code)])
                 + 60 * SumOver(S, [code \in S |-> CreditWeight(code)])
    IN IF worth >= 1000 THEN 0 ELSE 1000 - worth

Popped == CHOOSE e \in open_heap : e \notin open_heap'

\* the positions of the catalogue's courses that are candidates in state st:
\* elective, offered in st's term (or without offering terms), with every
\* non-corequisite prerequisite taken or in the prior set, and not yet chosen
CandidatePositions(st) ==
    {i \in 1..Len(courses) :
        LET c == courses[i] IN
        /\ ~Contains(Lower(c.type), <<"wajib">>)
        /\ (SemsInt(c) = {} \/ st.sem \in SemsInt(c))
        /\ c.course_code \in DOMAIN prereq =>
              \A k \in 1..Len(prereq[c.course_code]) :
                  ~prereq[c.course_code][k].is_corequisite =>
                      prereq[c.course_code][k].code \in courses_taken \cup st.prev
        /\ c.course_code \notin st.prev \cup st.cur}

\* the candidates ranked among the K highest: fewer than K candidates have a
\* higher score, or the same score and an earlier place in the catalogue
TopPositions(st) ==
    {i \in CandidatePositions(st) :
        \/ top_candidates <= 0
        \/ Cardinality({j \in CandidatePositions(st) :
                \/ ScoreOf(courses[j].course_code) > ScoreOf(courses[i].course_code)
                \/ /\ ScoreOf(courses[j].course_code) = ScoreOf(courses[i].course_code)
                   /\ j < i}) < top_candidates}

\* the codes that may be added from st: ranked among the K highest, with a
\* positive credit weight that fits in what is left of the term's cap
AddTargets(st) ==
    {courses[i].course_code : i \in {j \in TopPositions(st) :
        /\ CreditWeight(courses[j].course_code) > 0
        /\ st.used + CreditWeight(courses[j].course_code) <= CapOf(st.sem)}}

SuccessorByAdding(st, code) ==
    [sem |-> st.sem, used |-> st.used + CreditWeight(code), prev |-> st.prev,
     cur |-> st.cur \cup {code}]

\* C12: when a state is expanded, each course that is among the K
\* highest-scoring candidates of the state's term (K = top_candidates, no cut
\* when K <= 0; the cut is made before the credit test) and has a positive
\* credit weight fitting in the remaining cap yields a generated successor
\* costing no more than the expanded state, and every add transition the
\* expansion records adds one of exactly these courses to the expanded state
C12_AddSuccessorsAreTopKThatFit ==
    [][(pc = "search" /\ pc' = "search") =>
        LET st == Popped.st IN
        /\ \A code \in AddTargets(st) :
              /\ SuccessorByAdding(st, code) \in DOMAIN g_cost'
              /\ g_cost'[SuccessorByAdding(st, code)] <= g_cost[st]
        /\ \A x \in Recorded :
              came_from'[x].typ = "add" =>
                  /\ came_from'[x].prev = st
                  /\ came_from'[x].code \in AddTargets(st)
                  /\ x = SuccessorByAdding(st, came_from'[x].code)]_vars

\* an expanded state (its advance successor is recorded) with K = 1 whose
\* best-ranked candidate fails the credit test while a lower-ranked
\* candidate would pass it: no course was added from it, although the search
\* has recorded add transitions from other states
C12_Witness ==
    /\ pc = "search"
    /\ top_candidates = 1
    /\ \E x \in DOMAIN came_from :
          LET st == came_from[x].prev IN
          /\ came_from[x].typ = "advance"
          /\ AddTargets(st) = {}
          /\ \E i \in CandidatePositions(st) \ TopPositions(st) :
                /\ CreditWeight(courses[i].course_code) > 0
                /\ st.used + CreditWeight(courses[i].course_code) <= CapOf(st.sem)
                /\ SuccessorByAdding(st, courses[i].course_code) \notin DOMAIN g_cost
    /\ \E x \in DOMAIN came_from : came_from[x].typ = "add"

SuccessorByAdvancing(st) ==
    [sem |-> st.sem + 1, used |-> 0, prev |-> st.prev \cup st.cur, cur |-> {}]

\* C13: states are recorded once per key (term, used credits, prior set,
\* in-progress set); in every search step a recorded state stays recorded
\* and its cost does not increase, its cost or predecessor changes only when
\* the cost becomes strictly lower, and every successor the step generates
\* from the expanded state ends the step with a recorded cost no higher than
\* the cost of the path just generated to it
C13_RecordedCostIsLowestSeen ==
    /\ [](\A i, j \in 1..Len(g_keys) : g_keys[i] = g_keys[j] => i = j)
    /\ [](SeqRange(g_keys) = DOMAIN g_cost /\ DOMAIN came_from \subseteq DOMAIN g_cost)
    /\ [][pc = "search" =>
            \A x \in DOMAIN g_cost :
                /\ x \in DOMAIN g_cost'
                /\ g_cost'[x] <= g_cost[x]
                /\ x \in DOMAIN came_from => x \in DOMAIN came_from'
                /\ (\/ g_cost'[x] # g_cost[x]
                    \/ (x \in DOMAIN came_from') # (x \in DOMAIN came_from)
                    \/ x \in DOMAIN came_from /\ came_from'[x] # came_from[x])
                   => g_cost'[x] < g_cost[x]]_vars
    /\ [][(pc = "search" /\ pc' = "search") =>
            LET st == Popped.st IN
            /\ g_cost'[SuccessorByAdvancing(st)] <= g_cost[st] + AdvanceCostOf(st.cur)
            /\ \A code \in AddTargets(st) :
                  g_cost'[SuccessorByAdding(st, code)] <= g_cost[st] + 0]_vars

\* the open list still holds an entry pushed for a state at a cost higher
\* than the one now recorded for it: the state was reached again by a
\* strictly cheaper path, and its record was replaced
C13_Witness ==
    /\ pc = "search"
    /\ \E e \in open_heap :
          /\ e.f > g_cost[e.st]
          /\ e.st \in DOMAIN came_from
          /\ g_cost[e.st] >= g_cost[came_from[e.st].prev]

\* C14 (as claimed): the entries of the priority queue are totally ordered by
\* the comparison the queue applies (cost first, then a secondary key): of
\* any two distinct entries in the queue, one is before the other
C14_HeapOrderIsTotal ==
    \A a, b \in open_heap : a # b => (EntryLess(a, b) \/ EntryLess(b, a))

\* the planning range of a call: the terms after the current one, up to 7
PlanningRange == StartSem..(GRADUATION_SEM - 1)

\* the candidate generator offers nothing for term t, given the taken set and
\* what the returned schedule places before t
NoEligibleCandidate(t) ==
    CandidateCoursesForSemester(t, courses_taken \cup PlacedBefore(t)) = <<>>

\* C24: the returned schedule has one entry for each term of the planning
\* range, in order; the entry of a term without an eligible candidate has no
\* course and total credits 0; and every entry's total credits is the sum of
\* the credit weights of its courses
C24_EmptyTermsEmitted ==
    Done =>
        /\ Len(schedule) = Cardinality(PlanningRange)
        /\ \A i \in 1..Len(schedule) :
              /\ schedule[i].semester = StartSem + i - 1
              /\ schedule[i].sks = TermCredits(schedule[i].semester)
              /\ NoEligibleCandidate(schedule[i].semester) =>
                    (schedule[i].courses = <<>> /\ schedule[i].sks = 0)

\* a returned schedule with an empty entry for a term without candidates and
\* a later entry that holds a course
C24_Witness ==
    /\ Done
    /\ \E i, j \in 1..Len(schedule) :
          /\ i < j
          /\ NoEligibleCandidate(schedule[i].semester)
          /\ schedule[i].courses = <<>> /\ schedule[i].sks = 0
          /\ schedule[j].courses # <<>> /\ schedule[j].sks > 0

\* C25 (as claimed): the test script's invocation of the planner entry point
\* with per_semester_sks_cap and per_semester_count_cap ends with neither an
\* import error nor a run error
C25_ScriptRunReturnsPlan ==
    pc \notin {"script_exit_1", "script_exit_2"}

\* C26 (as claimed): every term entry of a returned schedule holds at most
\* one course
C26_OneElectivePerSemester ==
    Done => \A i \in 1..Len(schedule) : Len(schedule[i].courses) <= 1

\* the states the search has generated: those with a recorded cost and those
\* on the open list
GeneratedStates == DOMAIN g_cost \cup {e.st : e \in open_heap}

\* C27: in every state (sem, used, prev, cur) the search generates, used is
\* the sum of the credit weights of the courses in cur, used is at most the
\* cap of term sem, prev and cur are disjoint, and sem is at least the term
\* after the current one
C27_SearchStateInvariant ==
    \A st \in GeneratedStates :
        /\ st.used = SumOver(st.cur, [code \in st.cur |-> CreditWeight(code)])
        /\ st.used <= CapOf(st.sem)
        /\ st.prev \cap st.cur = {}
        /\ st.sem >= current_semester + 1

\* the search has generated a state in a later term whose in-progress set
\* holds two courses and whose prior set holds a course
C27_Witness ==
    \E st \in GeneratedStates :
        /\ Cardinality(st.cur) >= 2
        /\ st.prev # {}
        /\ st.used > 0
        /\ st.sem > current_semester + 1

\* the places <<entry, position>> of the returned schedule
SchedulePlaces ==
    {p \in (1..Len(schedule)) \X (1..Len(courses)) : p[2] <= Len(schedule[p[1]].courses)}

\* C28: no course code occupies two places of the returned schedule, be it
\* in one term or in two
C28_NoCourseTwice ==
    Done =>
        \A p, q \in SchedulePlaces :
            schedule[p[1]].courses[p[2]] = schedule[q[1]].courses[q[2]] => p = q

\* a returned schedule with two courses in one term and a course in another
C28_Witness ==
    /\ Done
    /\ \E i, j \in 1..Len(schedule) :
          /\ i # j
          /\ Len(schedule[i].courses) >= 2
          /\ Len(schedule[j].courses) >= 1

\* a planner call has built its caps
PlannerCalled == pc \in {"search", "select", "done"}

\* the positions of the user's sequence whose entry is a number above 0
KeptCaps == {i \in 1..Len(per_semester_caps) :
                per_semester_caps[i].k = "int" /\ per_semester_caps[i].v > 0}

\* the position of the n-th kept entry, counting from 1
NthKept(n) == CHOOSE i \in KeptCaps : Cardinality({j \in KeptCaps : j < i}) = n - 1

\* C29: the n-th entry that is a number above 0 is the cap of term
\* current + n, for the terms up to 7; entries that are not numbers or are
\* not above 0 take no term; a term beyond the kept entries has no cap of
\* its own and uses 20
C29_CapsAssignedInOrder ==
    PlannerCalled =>
        \A t \in PlanningRange :
            LET n == t - current_semester IN
            IF n <= Cardinality(KeptCaps)
            THEN /\ t \in DOMAIN caps_map
                 /\ caps_map[t] = per_semester_caps[NthKept(n)].v
                 /\ CapOf(t) = per_semester_caps[NthKept(n)].v
            ELSE /\ t \notin DOMAIN caps_map
                 /\ CapOf(t) = 20

\* the call with caps ["x", 0, 18] two terms before graduation: 18 is the
\* cap of the first planned term and the term after it uses 20
C29_Witness ==
    /\ PlannerCalled
    /\ Len(per_semester_caps) = 3
    /\ per_semester_caps[1].k = "str" /\ per_semester_caps[2] = IntV(0)
    /\ current_semester + 2 \in PlanningRange
    /\ CapOf(current_semester + 1) = 18
    /\ CapOf(current_semester + 2) = 20

(***************************************************************************)
(* Properties of the recommender.                                          *)
(***************************************************************************)
RecDone == pc = "rec_done" /\ ~rec_error

RecommendedCodes == {recommended[i].course_code : i \in 1..Len(recommended)}

InCatalogue(code) == \E i \in 1..Len(courses) : courses[i].course_code = code

\* C4: recommend_courses returns no course whose code is in the taken set
C4_NoTakenCourseRecommended ==
    RecDone => RecommendedCodes \cap courses_taken = {}

\* B is taken and would pass every other test (its prerequisite A is taken);
\* the list returned is not empty
C4_Witness ==
    /\ RecDone
    /\ {"A", "B"} \subseteq courses_taken
    /\ InCatalogue("B") /\ prereq = PrereqRules
    /\ ~rec_args.sks_must_match /\ ~rec_args.semester_preference.given
    /\ rec_args.current_semester = NoneV
    /\ recommended # <<>>

\* C5: every non-corequisite prerequisite in the rule of a returned course is
\* in the taken set
C5_StrictPrereqsOfRecommendedTaken ==
    RecDone => \A code \in RecommendedCodes :
        /\ code \in DOMAIN prereq
        /\ \A i \in 1..Len(prereq[code]) :
              ~prereq[code][i].is_corequisite => prereq[code][i].code \in courses_taken

\* B, whose rule lists A as prerequisite and C as corequisite, is returned
\* while C is not taken
C5_Witness ==
    /\ RecDone
    /\ "B" \in RecommendedCodes
    /\ "A" \in courses_taken /\ "C" \notin courses_taken

\* C6: no course whose type label contains "wajib" in any letter case is
\* returned by recommend_courses or placed in a term of the planner's schedule
C6_NoMandatoryCourseInOutput ==
    /\ RecDone => \A code \in RecommendedCodes :
          ~Contains(Lower(CourseByCode(code).type), <<"wajib">>)
    /\ Done => \A t \in SeqRange(ScheduleTerms) : \A code \in PlacedIn(t) :
          ~Contains(Lower(CourseByCode(code).type), <<"wajib">>)

\* the mandatory course W is in the catalogue with its prerequisite taken,
\* and the plan places other courses
C6_Witness ==
    /\ Done
    /\ InCatalogue("W") /\ "A" \in courses_taken
    /\ PlacedTerms # {}
    /\ stop = "goal"

\* the credit weight of a returned record, 0 when it has none
WeightOf(x) == IF x.sks.k = "int" THEN x.sks.v ELSE 0

\* x comes before y: higher score, or equal score and lower credit weight,
\* or both equal and the smaller code
ComesBefore(x, y) ==
    \/ x.score > y.score
    \/ x.score = y.score /\ WeightOf(x) < WeightOf(y)
    \/ x.score = y.score /\ WeightOf(x) = WeightOf(y)
       /\ CodeRank(x.course_code) < CodeRank(y.course_code)

\* C15: whenever recommend_courses returns a list for a top_n >= 0, the list
\* holds min(top_n, number of eligible courses) records of eligible courses,
\* each record comes before the next by (score descending, credit weight
\* ascending, code ascending), and every returned record comes before every
\* eligible course left out; these conditions fix the list, so equal
\* arguments give equal lists
C15_SortedAndTruncated ==
    RecDone =>
        LET ev == Evaluated(courses, rec_args) IN
        /\ rec_args.top_n >= 0
        /\ Len(recommended) = (IF rec_args.top_n < Len(ev) THEN rec_args.top_n ELSE Len(ev))
        /\ \A i \in 1..Len(recommended) : recommended[i] \in SeqRange(ev)
        /\ \A i, j \in 1..Len(recommended) :
              i < j => ComesBefore(recommended[i], recommended[j])
        /\ \A x \in SeqRange(ev) :
              x \notin SeqRange(recommended) =>
                  \A i \in 1..Len(recommended) : ComesBefore(recommended[i], x)

\* top_n = 1 cuts a list of two eligible courses that tie on the score: the
\* one returned has the lower credit weight although the other has the
\* smaller code
C15_Witness ==
    /\ RecDone
    /\ rec_args.top_n = 1
    /\ Len(recommended) = 1
    /\ \E y \in SeqRange(Evaluated(courses, rec_args)) :
          /\ y.score = recommended[1].score
          /\ WeightOf(recommended[1]) < WeightOf(y)
          /\ CodeRank(y.course_code) < CodeRank(recommended[1].course_code)

\* C16: every course recommend_courses returns has an entry in the
\* prerequisite table, and that entry's prerequisite list is not empty
C16_NoRuleNeverRecommended ==
    RecDone => \A code \in RecommendedCodes :
        /\ code \in DOMAIN prereq
        /\ Len(prereq[code]) > 0

\* A (no entry) and C (entry with an empty list) are untaken electives that
\* pass the term filter; the call returns fewer courses than top_n allows,
\* and neither of them
C16_Witness ==
    /\ RecDone
    /\ prereq = PrereqRules
    /\ InCatalogue("A") /\ InCatalogue("C")
    /\ courses_taken = {}
    /\ PassesSemesterFilter(CourseByCode("A"), rec_args)
    /\ PassesSemesterFilter(CourseByCode("C"), rec_args)
    /\ SemPrefGiven(rec_args)
    /\ recommended # <<>>
    /\ Len(recommended) < rec_args.top_n

\* the codes a rule flags as corequisites, and those it does not
CoreqCodes(code) ==
    {prereq[code][i].code : i \in {j \in 1..Len(prereq[code]) : prereq[code][j].is_corequisite}}

StrictCodes(code) ==
    {prereq[code][i].code : i \in {j \in 1..Len(prereq[code]) : ~prereq[code][j].is_corequisite}}

\* the eligibility test, in which the taken set is consulted only for the
\* course's own code and for the codes its rule does not flag as corequisites
EligibleRegardlessOfCoreqs(c) ==
    /\ c.course_code \notin courses_taken
    /\ ~Contains(Lower(c.type), <<"wajib">>)
    /\ c.course_code \in DOMAIN prereq
    /\ Len(prereq[c.course_code]) > 0
    /\ StrictCodes(c.course_code) \subseteq courses_taken
    /\ PassesSemesterFilter(c, rec_args)
    /\ PassesSksFilter(c, rec_args)

\* the record returned for a code
RecordOf(code) == recommended[CHOOSE i \in 1..Len(recommended) : recommended[i].course_code = code]

\* C17: when the returned list is not cut by top_n, a course of the catalogue
\* is returned exactly when it passes a test that reads the taken set only
\* for the course itself and for its non-corequisite prerequisites, so taking
\* or not taking its corequisites cannot change whether it is returned; the
\* corequisites-taken reason is given exactly when the rule has corequisites
\* and all of them are taken
C17_CoreqNeverBlocks ==
    (RecDone /\ rec_args.top_n >= Len(courses)) =>
        \A i \in 1..Len(courses) :
            /\ (courses[i].course_code \in RecommendedCodes) <=> EligibleRegardlessOfCoreqs(courses[i])
            /\ courses[i].course_code \in RecommendedCodes =>
                  (InSeq(RecordOf(courses[i].course_code).reason, "coreq_taken")
                      <=> (/\ CoreqCodes(courses[i].course_code) # {}
                           /\ CoreqCodes(courses[i].course_code) \subseteq courses_taken))

\* B is returned although its corequisite C is not taken, and D is returned
\* with the corequisites-taken reason, its corequisite A being taken
C17_Witness ==
    /\ RecDone /\ rec_args.top_n >= Len(courses)
    /\ "B" \in RecommendedCodes /\ "C" \in CoreqCodes("B") /\ "C" \notin courses_taken
    /\ "D" \in RecommendedCodes /\ "A" \in CoreqCodes("D") /\ "A" \in courses_taken
    /\ InSeq(RecordOf("D").reason, "coreq_taken")
    /\ ~InSeq(RecordOf("B").reason, "coreq_taken")

\* the place of a reason in the order of the scoring table
ReasonRank(why) ==
    CASE why \in {"prereq_satisfied", "no_strict_prereq"} -> 1
      [] why = "has_coreq" -> 2
      [] why = "coreq_taken" -> 3
      [] why = "interest" -> 4
      [] why = "career" -> 5
      [] why = "sks_match" -> 6
      [] why = "lab" -> 7
      [] why \in {"semester", "semester_unavailable"} -> 8
      [] why = "priority" -> 9
      [] OTHER -> 0

\* the scoring table for course c: row k is [holds, pts]
ScoringTable(c) ==
    LET code == c.course_code
        labs == LabPreferencesForCareer(career_goal)
        lab == LabCategory(c.type)
        ranks == {i \in 1..Len(labs) : labs[i] = lab}
        rank == MinOf(ranks) - 1
        matches == MatchesInterest(c, interests)
    IN << [holds |-> StrictCodes(code) \subseteq courses_taken, pts |-> 50],
          [holds |-> CoreqCodes(code) # {}, pts |-> 20],
          [holds |-> CoreqCodes(code) # {} /\ CoreqCodes(code) \subseteq courses_taken, pts |-> 10],
          [holds |-> matches > 0, pts |-> 15 * matches],
          [holds |-> CareerRelevance(c, career_goal), pts |-> 10],
          [holds |-> /\ rec_args.sks_preference.given
                     /\ c.sks.k = "int"
                     /\ c.sks.v \in rec_args.sks_preference.set, pts |-> 5],
          [holds |-> ranks # {},
           pts |-> IF ranks = {} THEN 0
                   ELSE IF rank = 0 THEN 20 ELSE IF rank = 1 THEN 12
                   ELSE IF rank = 2 THEN 6 ELSE IF rank = 3 THEN 3 ELSE 2],
          [holds |-> SemPrefGiven(rec_args) /\ SemsInt(c) \cap SemPrefSet(rec_args) # {}, pts |-> 15],
          [holds |-> \/ Contains(Lower(c.type), <<"wajib", "program", "studi">>)
                     \/ Contains(Lower(c.type), <<"wajib", "prodi">>), pts |-> 5] >>

RECURSIVE TableTotal(_)
TableTotal(rows) ==
    IF rows = <<>> THEN 0
    ELSE (IF Head(rows).holds THEN Head(rows).pts ELSE 0) + TableTotal(Tail(rows))

\* C18: the score of every returned course is a non-negative integer, the sum
\* of the rows of the scoring table that hold for it (50 prerequisites
\* satisfied, 20 has corequisites, 10 more when all are taken, 15 per
\* matching interest, 10 career relevance, 5 credit-weight match, lab bonus
\* 20/12/6/3/2 by rank, 15 term alignment, 5 priority elective); its reasons
\* are in the table's order, one for each row that holds, the only other
\* reason being the no-points note that the course has no term information
C18_ScoreIsSumOfContributions ==
    RecDone => \A i \in 1..Len(recommended) :
        LET r == recommended[i]
            table == ScoringTable(CourseByCode(r.course_code))
        IN /\ r.score \in Nat
           /\ r.score = TableTotal(table)
           /\ \A a, b \in 1..Len(r.reason) :
                 a < b => ReasonRank(r.reason[a]) < ReasonRank(r.reason[b])
           /\ \A a \in 1..Len(r.reason) : ReasonRank(r.reason[a]) \in 1..9
           /\ \A k \in 1..9 :
                 table[k].holds <=>
                     \E a \in 1..Len(r.reason) :
                         /\ ReasonRank(r.reason[a]) = k
                         /\ r.reason[a] # "semester_unavailable"

\* a returned course with six contributions, among them the credit-weight
\* match, a lab bonus and term alignment; it scores 50 + 20 + 10 + 5 + 20 + 15
C18_Witness ==
    /\ RecDone
    /\ \E i \in 1..Len(recommended) :
          /\ Len(recommended[i].reason) = 6
          /\ recommended[i].score = 120
          /\ InSeq(recommended[i].reason, "sks_match")
          /\ InSeq(recommended[i].reason, "lab")
          /\ InSeq(recommended[i].reason, "semester")

\* lines 402-403: the type label carries the priority phrase
HasPriorityPhrase(c) ==
    \/ Contains(Lower(c.type), <<"wajib", "program", "studi">>)
    \/ Contains(Lower(c.type), <<"wajib", "prodi">>)

\* C19 (as claimed): a course whose type label contains the priority phrase
\* and which is untaken, has a prerequisite rule whose non-corequisite codes
\* are all taken, and passes the term and credit filters, is returned (by a
\* call whose top_n does not cut the list) with the priority reason, its
\* score including the 5 points
C19_PriorityElectiveGetsBonus ==
    (RecDone /\ rec_args.top_n >= Len(courses)) =>
        \A i \in 1..Len(courses) :
            LET c == courses[i] IN
            (/\ HasPriorityPhrase(c)
             /\ c.course_code \notin courses_taken
             /\ c.course_code \in DOMAIN prereq
             /\ Len(prereq[c.course_code]) > 0
             /\ StrictCodes(c.course_code) \subseteq courses_taken
             /\ PassesSemesterFilter(c, rec_args)
             /\ PassesSksFilter(c, rec_args))
            => /\ c.course_code \in RecommendedCodes
               /\ InSeq(RecordOf(c.course_code).reason, "priority")
               /\ RecordOf(c.course_code).score >= 55

\* the spellings of the parity tokens among the arguments
OddWords == {"odd", "Odd", "gasal", "GASAL", "ganjil"}
EvenWords == {"even", "genap", "Genap"}

\* the term set a call resolves from its arguments
ResolvedTerms == SeqRange(SemPrefAcc(rec_args.semester_preference, rec_args.current_semester))

\* C20: an explicit preference that is an odd token resolves to {1,3,5,7},
\* an even token to {2,4,6,8}; without an explicit preference a current term
\* n in 1..7 resolves to {n+1}, the current term 8 to the empty set, and a
\* current term given as a parity token to the terms of the other parity;
\* and a returned course that declares offering terms is offered in one of
\* the resolved terms whenever that set is not empty
C20_TermPreferenceResolution ==
    RecDone =>
        LET pref == rec_args.semester_preference
            cur == rec_args.current_semester
            one == pref.given /\ Len(pref.items) = 1 /\ pref.items[1].k = "tok"
        IN /\ (one /\ pref.items[1].s \in OddWords) => ResolvedTerms = {1, 3, 5, 7}
           /\ (one /\ pref.items[1].s \in EvenWords) => ResolvedTerms = {2, 4, 6, 8}
           /\ (~pref.given /\ cur.k = "int" /\ cur.v \in 1..7) => ResolvedTerms = {cur.v + 1}
           /\ (~pref.given /\ cur.k = "int" /\ cur.v = 8) => ResolvedTerms = {}
           /\ (~pref.given /\ cur.k = "tok" /\ cur.s \in OddWords) => ResolvedTerms = {2, 4, 6, 8}
           /\ (~pref.given /\ cur.k = "tok" /\ cur.s \in EvenWords) => ResolvedTerms = {1, 3, 5, 7}
           /\ ResolvedTerms # {} =>
                 \A code \in RecommendedCodes :
                     \/ SemsInt(CourseByCode(code)) = {}
                     \/ SemsInt(CourseByCode(code)) \cap ResolvedTerms # {}

\* the preference "Odd" is resolved, and B, offered in term 7 only, is
\* returned with the term-alignment reason
C20_Witness ==
    /\ RecDone
    /\ rec_args.semester_preference.given
    /\ rec_args.semester_preference.items = <<StrTok("Odd")>>
    /\ ResolvedTerms = {1, 3, 5, 7}
    /\ "B" \in RecommendedCodes
    /\ InSeq(RecordOf("B").reason, "semester")

\* the union the docstring of recommend_courses describes
MergedTerms ==
    SeqRange(ExpandAll(rec_args.semester_preference.items))
        \cup SeqRange(ExpandNextFromCurrent(rec_args.current_semester))

\* C21 (as claimed): when a call gives both semester_preference and
\* current_semester, the term set it filters and scores with is the union of
\* the expanded preference and the next-term set of the current term; a
\* returned course that declares offering terms is then offered in one of
\* the merged terms
C21_TermSetIsMerge ==
    (/\ RecDone
     /\ rec_args.semester_preference.given
     /\ rec_args.current_semester.k # "none") =>
        /\ ResolvedTerms = MergedTerms
        /\ MergedTerms # {} =>
              \A code \in RecommendedCodes :
                  \/ SemsInt(CourseByCode(code)) = {}
                  \/ SemsInt(CourseByCode(code)) \cap MergedTerms # {}

\* the career text matches no label of the keyword map and none of the lab
\* preference map
UnknownCareer ==
    /\ career_goal # <<>>
    /\ \A i \in 1..Len(career_keyword_map) :
          ~LabelMatches(career_keyword_map[i].key, Lower(career_goal))
    /\ \A i \in 1..Len(career_lab_preferences) :
          ~LabelMatches(career_lab_preferences[i].key, Lower(career_goal))

\* C22 (as claimed): with such a career no returned course carries the career
\* or the lab reason, every course the planner search has put in a term
\* scores 15 per interest match and nothing else, and the recommender call
\* does not raise
C22_UnknownCareerEarnsNoBonus ==
    UnknownCareer =>
        /\ pc = "rec_done" => ~rec_error
        /\ RecDone =>
              \A i \in 1..Len(recommended) :
                  /\ ~InSeq(recommended[i].reason, "career")
                  /\ ~InSeq(recommended[i].reason, "lab")
        /\ \A st \in DOMAIN g_cost : \A code \in st.cur :
              HasCourse(code) =>
                  Score(CourseByCode(code), interests, career_goal)
                      = 15 * MatchesInterest(CourseByCode(code), interests)

\* C23 (as claimed): over a missing courses or rules file both components are
\* constructed, recommend_courses returns the empty list, and the planner
\* returns a schedule whose terms are all empty
C23_MissingFilesGiveEmptyResults ==
    missing_files # {} =>
        /\ pc # "init_error"
        /\ pc = "rec_done" => (~rec_error /\ recommended = <<>>)
        /\ Done => \A i \in 1..Len(schedule) : schedule[i].courses = <<>>

\* the eligibility tests other than the credit filter
PassesOtherTests(c) ==
    /\ c.course_code \notin courses_taken
    /\ ~Contains(Lower(c.type), <<"wajib">>)
    /\ c.course_code \in DOMAIN prereq
    /\ Len(prereq[c.course_code]) > 0
    /\ StrictCodes(c.course_code) \subseteq courses_taken
    /\ PassesSemesterFilter(c, rec_args)

\* the credit weight of the course is an integer of the preference set
MatchesSksPreference(c) ==
    c.sks.k = "int" /\ c.sks.v \in rec_args.sks_preference.set

\* the score the same call gives the course when no credit preference is
\* passed
ScoreWithoutSksPreference(c) ==
    Evaluate(c, [rec_args EXCEPT !.sks_preference = NoSks]).score

\* C30: a call with a credit preference and sks_must_match returns only
\* courses whose credit weight is an integer of the preference set; a call
\* with a credit preference and without sks_must_match, when top_n does not
\* cut the list, returns every course that passes the other tests, with the
\* score it has without the preference plus 5 exactly when its credit weight
\* is an integer of the set
C30_SksPreferenceFilterAndBonus ==
    (RecDone /\ rec_args.sks_preference.given) =>
        /\ rec_args.sks_must_match =>
              \A i \in 1..Len(courses) :
                  courses[i].course_code \in RecommendedCodes => MatchesSksPreference(courses[i])
        /\ (~rec_args.sks_must_match /\ rec_args.top_n >= Len(courses)) =>
              \A i \in 1..Len(courses) :
                  LET c == courses[i] IN
                  /\ (c.course_code \in RecommendedCodes) <=> PassesOtherTests(c)
                  /\ c.course_code \in RecommendedCodes =>
                        /\ RecordOf(c.course_code).score =
                              ScoreWithoutSksPreference(c)
                                  + (IF MatchesSksPreference(c) THEN 5 ELSE 0)
                        /\ InSeq(RecordOf(c.course_code).reason, "sks_match")
                              <=> MatchesSksPreference(c)

\* a strict call with preference {2} returns B (2 credits) and leaves out A2
\* (3 credits), which passes every other test
C30_Witness ==
    /\ RecDone
    /\ rec_args.sks_preference.given /\ rec_args.sks_must_match
    /\ "B" \in RecommendedCodes
    /\ InCatalogue("A2") /\ PassesOtherTests(CourseByCode("A2"))
    /\ "A2" \notin RecommendedCodes

\* C31 (as claimed): a call over a catalogue that holds a course whose credit
\* weight is present but not an integer returns normally, also when that
\* course ties on score with another one, and gives that course no
\* credit-weight reason
C31_MalformedCreditStillUsable ==
    (pc = "rec_done" /\ \E i \in 1..Len(courses) : courses[i].sks.k = "str") =>
        /\ ~rec_error
        /\ \A i \in 1..Len(recommended) :
              recommended[i].sks.k = "str" => ~InSeq(recommended[i].reason, "sks_match")

(***************************************************************************)
(* The Telegram bot's conversation (telegram/matkulfinder_bot.py).         *)
(* One user talks to the bot in one chat.  The handlers are modelled for a *)
(* process in which the names kb_recommend and plan_astar are bound; what  *)
(* a call to them does is left open: it returns or it raises.              *)
(***************************************************************************)

\* the most updates one run of the bot receives
MaxUpdates == 12

\* the conversation states in the order of range(7)
ConversationStates ==
    <<"ASKING_NAME", "ASKING_FEATURE", "ASKING_COURSES_TAKEN",
      "ASKING_CURRENT_SEMESTER", "ASKING_INTERESTS", "ASKING_CAREER", "ASKING_SKS">>

\* user_data[key] = value
Put(data, key, value) ==
    [k \in (DOMAIN data) \cup {key} |-> IF k = key THEN value ELSE data[k]]

\* user_data.get(key, default)
Get(data, key, default) == IF key \in DOMAIN data THEN data[key] ELSE default

\* text replies a user sends, as word or token sequences
NameReplies == {<<"Ana">>}

FeatureReplies == {<<"Smart", "Course", "Planner">>, <<"Course", "Recommender">>, <<"both">>}

CoursesReplies == {<<"a">>, <<"A", "B">>}

SemesterReplies == {StrV, IntV(0), IntV(1), IntV(8), IntV(9)}

InterestsReplies == {<<"AI">>}

CareerReplies == {<<"Data", "scientist">>}

SksReplies == {<<StrV>>, <<IntV(2)>>, <<IntV(2), IntV(3)>>, <<StrV, IntV(3)>>}

\* code.strip().upper() of one course code
UpperCode(w) == IF w = "a" THEN "A" ELSE w

\* the feature stored for a reply: "planner" in choice.lower()
FeatureOf(choice) ==
    IF Contains(Lower(choice), <<"planner">>) THEN "planner" ELSE "recommender"

\* mutant: any whole number is taken as the semester
SemesterAcceptedAnyNumber(reply) == reply.k = "int"

\* int(semester_text) returns and the number is within 1..8
SemesterAccepted(reply) == reply.k = "int" /\ reply.v >= 1 /\ reply.v <= 8

\* the integers of a credit reply, in order; tokens int() rejects are skipped
RECURSIVE SksList(_)
SksList(tokens) ==
    IF tokens = <<>> THEN <<>>
    ELSE IF Head(tokens).k = "int" THEN <<Head(tokens).v>> \o SksList(Tail(tokens))
    ELSE SksList(Tail(tokens))

\* the stored credit preference: the list, its only member, or None
SksPreferenceOf(tokens) ==
    LET l == SksList(tokens) IN
    IF Len(l) > 1 THEN [k |-> "list", v |-> l]
    ELSE IF Len(l) = 1 THEN IntV(l[1])
    ELSE NoneV

\* mutant: clearing keeps the user's name
ClearedKeepsName(data) == [k \in (DOMAIN data) \cap {"name"} |-> data[k]]

\* user_data.clear()
Cleared(data) == NoData

\* mutant: receive_career asks for credits on either path
AfterCareerAlwaysAsks(data) == "ASKING_SKS"

\* the state receive_career returns
AfterCareer(data) ==
    IF Get(data, "feature", "") = "planner" THEN "END" ELSE "ASKING_SKS"

\* the keyword arguments the handlers read from user_data for a call
CallArgs(data) ==
    [name             |-> Get(data, "name", <<"You">>),
     courses_taken    |-> Get(data, "courses_taken", <<>>),
     current_semester |-> Get(data, "current_semester", NoneV),
     interests        |-> Get(data, "interests", <<>>),
     career           |-> Get(data, "target_career", <<>>),
     stored           |-> DOMAIN data]

\* /start outside a conversation
BotStart ==
    /\ updates < MaxUpdates
    /\ conv = "END"
    /\ conv' = "ASKING_NAME"
    /\ calls' = <<>>
    /\ last_update' = OtherUpdate("/start")
    /\ updates' = updates + 1
    /\ UNCHANGED user_data
    /\ UNCHANGED <<profile, pc, planvars, recvars>>

ReceiveName ==
    /\ updates < MaxUpdates
    /\ conv = "ASKING_NAME"
    /\ \E text \in NameReplies :
          /\ last_update' = TextUpdate(text)
          /\ user_data' = Put(user_data, "name", text)
    /\ conv' = "ASKING_FEATURE"
    /\ updates' = updates + 1
    /\ UNCHANGED calls
    /\ UNCHANGED <<profile, pc, planvars, recvars>>

ReceiveFeatureChoice ==
    /\ updates < MaxUpdates
    /\ conv = "ASKING_FEATURE"
    /\ \E text \in FeatureReplies :
          /\ last_update' = TextUpdate(text)
          /\ user_data' = Put(user_data, "feature", FeatureOf(text))
    /\ conv' = "ASKING_COURSES_TAKEN"
    /\ updates' = updates + 1
    /\ UNCHANGED calls
    /\ UNCHANGED <<profile, pc, planvars, recvars>>

ReceiveCoursesTaken ==
    /\ updates < MaxUpdates
    /\ conv = "ASKING_COURSES_TAKEN"
    /\ \E text \in CoursesReplies :
          /\ last_update' = TextUpdate(text)
          /\ user_data' = Put(user_data, "courses_taken",
                              [i \in 1..Len(text) |-> UpperCode(text[i])])
    /\ conv' = "ASKING_CURRENT_SEMESTER"
    /\ updates' = updates + 1
    /\ UNCHANGED calls
    /\ UNCHANGED <<profile, pc, planvars, recvars>>

ReceiveCurrentSemester ==
    /\ updates < MaxUpdates
    /\ conv = "ASKING_CURRENT_SEMESTER"
    /\ \E reply \in SemesterReplies :
          /\ last_update' = TextUpdate(reply)
          /\ IF SemesterAccepted(reply)
             THEN /\ user_data' = Put(user_data, "current_semester", reply)
                  /\ conv' = "ASKING_INTERESTS"
             ELSE UNCHANGED <<user_data, conv>>
    /\ updates' = updates + 1
    /\ UNCHANGED calls
    /\ UNCHANGED <<profile, pc, planvars, recvars>>

ReceiveInterests ==
    /\ updates < MaxUpdates
    /\ conv = "ASKING_INTERESTS"
    /\ \E text \in InterestsReplies :
          /\ last_update' = TextUpdate(text)
          /\ user_data' = Put(user_data, "interests", text)
    /\ conv' = "ASKING_CAREER"
    /\ updates' = updates + 1
    /\ UNCHANGED calls
    /\ UNCHANGED <<profile, pc, planvars, recvars>>

\* stores the career; on the planner path calls plan_astar, whose outcome the
\* try / except takes either way, clears the store and ends
ReceiveCareer ==
    /\ updates < MaxUpdates
    /\ conv = "ASKING_CAREER"
    /\ \E text \in CareerReplies :
          LET stored == Put(user_data, "target_career", text) IN
          /\ last_update' = TextUpdate(text)
          /\ IF AfterCareer(stored) = "END"
             THEN /\ \E outcome \in {"returns", "raises"} :
                        calls' = Append(calls, [fn |-> "plan_astar", outcome |-> outcome,
                                                args |-> CallArgs(stored)])
                  /\ user_data' = Cleared(stored)
                  /\ conv' = "END"
             ELSE /\ user_data' = stored
                  /\ conv' = AfterCareer(stored)
                  /\ UNCHANGED calls
    /\ updates' = updates + 1
    /\ UNCHANGED <<profile, pc, planvars, recvars>>

\* stores the credit preference, calls kb_recommend, clears the store and ends
ReceiveSks ==
    /\ updates < MaxUpdates
    /\ conv = "ASKING_SKS"
    /\ \E text \in SksReplies :
          LET stored == Put(user_data, "sks_preference", SksPreferenceOf(text)) IN
          /\ last_update' = TextUpdate(text)
          /\ \E outcome \in {"returns", "raises"} :
                calls' = Append(calls, [fn |-> "kb_recommend", outcome |-> outcome,
                                        args |-> CallArgs(stored)])
          /\ user_data' = Cleared(stored)
    /\ conv' = "END"
    /\ updates' = updates + 1
    /\ UNCHANGED <<profile, pc, planvars, recvars>>

\* /cancel inside a conversation
Cancel ==
    /\ updates < MaxUpdates
    /\ conv # "END"
    /\ last_update' = OtherUpdate("/cancel")
    /\ user_data' = Cleared(user_data)
    /\ conv' = "END"
    /\ updates' = updates + 1
    /\ UNCHANGED calls
    /\ UNCHANGED <<profile, pc, planvars, recvars>>

\* an update no registered handler takes: outside a conversation anything but
\* /start, inside one /start, another command or a message without text
Unhandled ==
    /\ updates < MaxUpdates
    /\ \E kind \in {"text", "/start", "/cancel", "/other", "photo"} :
          /\ IF conv = "END" THEN kind # "/start" ELSE kind \in {"/start", "/other", "photo"}
          /\ last_update' = OtherUpdate(kind)
    /\ updates' = updates + 1
    /\ UNCHANGED <<conv, user_data, calls>>
    /\ UNCHANGED <<profile, pc, planvars, recvars>>

BotInit ==
    /\ missing_files = {}
    /\ courses = <<>>
    /\ prereq = EmptyRules
    /\ courses_taken = {}
    /\ interests = <<>>
    /\ career_goal = <<>>
    /\ current_semester = GRADUATION_SEM
    /\ pc = "idle"
    /\ per_semester_caps = <<>>
    /\ top_candidates = DEFAULT_TOP_CANDIDATES
    /\ max_expansions = DEFAULT_MAX_EXPANSIONS
    /\ caps_map = <<>>
    /\ open_heap = {}
    /\ g_cost = <<>>
    /\ g_keys = <<>>
    /\ came_from = <<>>
    /\ expansions = 0
    /\ stop = "none"
    /\ best_state = NoState
    /\ schedule = <<>>
    /\ rec_args = NoRecArgs
    /\ recommended = <<>>
    /\ rec_error = FALSE
    /\ conv = "END"
    /\ user_data = NoData
    /\ calls = <<>>
    /\ updates = 0
    /\ last_update = NoUpdate

BotNext ==
    \/ BotStart \/ ReceiveName \/ ReceiveFeatureChoice \/ ReceiveCoursesTaken
    \/ ReceiveCurrentSemester \/ ReceiveInterests \/ ReceiveCareer \/ ReceiveSks
    \/ Cancel \/ Unhandled

BotSpec == BotInit /\ [][BotNext]_vars

BotTypeOK ==
    /\ conv \in {"END"} \cup {ConversationStates[i] : i \in 1..7}
    /\ updates \in 0..MaxUpdates
    /\ Len(calls) <= MaxUpdates

(***************************************************************************)
(* Properties of the bot conversation                                      *)
(***************************************************************************)

\* the place of a conversation state in the question order, 0 for "END"
StateIndex(s) ==
    IF s = "END" THEN 0 ELSE CHOOSE i \in 1..7 : ConversationStates[i] = s

\* the answers a call needs
ProfileKeys == {"name", "courses_taken", "current_semester", "interests", "target_career"}

\* one step of a conversation, as C32 allows it
C32_Step ==
    /\ conv' # conv =>
          \/ conv = "END" /\ conv' = "ASKING_NAME"
          \/ conv # "END" /\ conv' = "END"
          \/ StateIndex(conv) \in 1..5 /\ StateIndex(conv') = StateIndex(conv) + 1
          \/ /\ conv = "ASKING_CAREER" /\ conv' = "ASKING_SKS"
             /\ Get(user_data', "feature", "") = "recommender"
    /\ (conv = "ASKING_FEATURE" /\ last_update'.kind = "text") =>
          /\ conv' = "ASKING_COURSES_TAKEN"
          /\ Get(user_data', "feature", "") =
                (IF \E i \in 1..Len(last_update'.reply) :
                        last_update'.reply[i] \in {"planner", "Planner"}
                 THEN "planner" ELSE "recommender")
    /\ conv' = "ASKING_SKS" => Get(user_data', "feature", "") # "planner"
    /\ (conv = "ASKING_CAREER" /\ Get(user_data, "feature", "") = "planner" /\ conv' # conv) =>
          conv' = "END"
    /\ (conv = "ASKING_SKS" /\ conv' # conv) => conv' = "END"
    /\ Len(calls') <= 1
    /\ calls' # calls /\ calls' # <<>> =>
          /\ calls = <<>>
          /\ conv' = "END"
          /\ ProfileKeys \subseteq calls'[1].args.stored
          /\ calls'[1].fn = "plan_astar" =>
                conv = "ASKING_CAREER" /\ Get(user_data, "feature", "") = "planner"
          /\ calls'[1].fn = "kb_recommend" =>
                conv = "ASKING_SKS" /\ Get(user_data, "feature", "") = "recommender"

ValidSemester(reply) == reply.k = "int" /\ reply.v \in 1..8

\* one step of a conversation, as C33 allows it
C33_Step ==
    /\ (conv = "ASKING_CURRENT_SEMESTER" /\ last_update'.kind = "text") =>
          IF ValidSemester(last_update'.reply)
          THEN /\ conv' = "ASKING_INTERESTS"
               /\ Get(user_data', "current_semester", NoneV) = last_update'.reply
          ELSE conv' = conv /\ user_data' = user_data
    /\ conv' = "ASKING_INTERESTS" =>
          ValidSemester(Get(user_data', "current_semester", NoneV))
    /\ \A i \in 1..Len(calls') : ValidSemester(calls'[i].args.current_semester)

\* C33: while the bot asks for the current semester, a reply that is no whole
\* number or lies outside 1..8 changes neither the conversation state nor the
\* stored answers; the bot goes on to the interests only with a stored semester
\* in 1..8, and every call of the recommender or planner gets such a semester
C33_SemesterValidated == [][C33_Step]_vars

\* the bot asked for the semester and was answered 9: it asks again and has
\* stored no semester
C33_Witness ==
    /\ last_update.at = "ASKING_CURRENT_SEMESTER"
    /\ last_update.kind = "text"
    /\ last_update.reply = IntV(9)
    /\ conv = "ASKING_CURRENT_SEMESTER"
    /\ "current_semester" \notin DOMAIN user_data

\* C34: outside a conversation, and so after every way a conversation ends
\* (recommendations or a plan sent, /cancel in any state, an exception of the
\* recommender or planner), the user's data store holds nothing, and the next
\* conversation starts from an empty store
C34_EndedMeansEmptyStore ==
    /\ conv = "END" => DOMAIN user_data = {}
    /\ (last_update.kind = "/start" /\ conv = "ASKING_NAME") => DOMAIN user_data = {}

\* a conversation answered every question, the recommender raised, and the
\* conversation has ended
C34_Witness ==
    /\ conv = "END"
    /\ last_update.kind = "text"
    /\ last_update.at = "ASKING_SKS"
    /\ Len(calls) = 1
    /\ calls[1].outcome = "raises"
    /\ ProfileKeys \subseteq calls[1].args.stored

====
